---------------------------- MODULE Spec2Model ----------------------------
(***************************************************************************)
(* pyrustpipe: row validation (Schema.validate_dict, Validator),           *)
(* chunked parallel dispatch (DistributedValidator, S3Validator,           *)
(* MapReduceValidator) and windowed streaming (StreamingValidator).        *)
(*                                                                         *)
(* The native extension pyrustpipe._core is not importable from the Python *)
(* sources, so Validator._get_rust_validator raises ImportError and        *)
(* Validator.validate_dict takes its Python fallback,                      *)
(* Schema.validate_dict.  That is the row validator modelled here.  Where  *)
(* the extension is built the import succeeds; the dispatch model carries  *)
(* that as the input "native", which is FALSE in every scenario but the    *)
(* one about what the workers write (InitWorkers).                         *)
(***************************************************************************)
EXTENDS Integers, Sequences, FiniteSets, TLC

VARIABLES
    \* ---- row validation (one call of Validator.validate_dict)
    row_pc,          \* "idle" | "call" | "returned" | "compiled" | "rule" |
                     \* "rule_returned"
    schema,          \* Schema.fields: sequence of [name, def] in insertion order
                     \* (self.schema of whichever validator runs)
    rules,           \* Validator.rules: sequence of ValidationRule
    data,            \* the dictionary being validated
    row_errors,      \* the list validate_dict returned
    compiled_rules,  \* Schema._compiled_rules: None or Some(list of rules)
    compile_ret,     \* what the last compile call returned, None before one
    rule_ret,        \* what the last call of a ValidationRule did: [kind,
                     \* value, exc], kind "none" before one, "bool" for a
                     \* returned bool, "exc" for an exception leaving it
    \* ---- parallel dispatch (validate_csv_parallel / S3Validator.validate)
    d_pc,            \* "idle" | "submit" | "collect" | "done"
    d_rows,          \* the records csv.DictReader produces, in file order
    chunk_size,      \* self.chunk_size
    workers,         \* self.workers (max_workers of the executor)
    chunks,          \* the list _read_csv_chunks returned
    futures,         \* futures[i]: [state, result, compiles] of the i-th
                     \* submitted unit; compiles: its Validator found
                     \* Schema._compiled_rules unset and builds the list
    all_results,     \* results gathered by the caller so far
    d_result,        \* the aggregated ValidationResult returned
    completed,       \* history: chunk numbers in the order the units finished
    callback,        \* the callback argument: "none", one that "returns" or
                     \* one that "raises"
    faulty,          \* chunk numbers whose _validate_chunk raises
    cb_calls,        \* history: the arguments of the callback invocations
    d_exc,           \* the exception that left the call, "" if none
    native,          \* whether pyrustpipe._core can be imported
    use_processes,   \* self.use_processes: process pool instead of threads
    writes,          \* history: [by, target, unit] for each write to an object
                     \* of the dispatch; by is 0 for the calling thread and
                     \* i for the worker running unit i
    \* ---- map/reduce (MapReduceValidator)
    mr_pc,           \* "idle" | "map" | "reduced"
    mr_chunks,       \* chunks handed to map_validate_chunk by the caller
    mr_map_results,  \* the map results collected by the caller
    mr_result,       \* what reduce_results returned
    \* ---- streaming (validate_csv_stream / validate_json_stream)
    s_pc,            \* "idle" | "read" | "flush" | "end" | "raised"
    framing,         \* "csv" | "jsonl"
    skip_header,     \* argument of validate_csv_stream
    lines,           \* the input: one item per record / per line
    buffer_size,     \* self.buffer_size
    s_pos,           \* number of input items consumed
    buffer,          \* the local list "buffer"
    row_count,       \* the local counter "row_count"
    yielded,         \* the window results yielded so far
    s_exc,           \* the exception that ended the generator, "" if none
    \* ---- content cache (ValidationCache, CachedValidator)
    now,             \* the clock datetime.now() reads
    ttl,             \* self.ttl
    max_cache_size,  \* self.max_cache_size
    manifest_file,   \* manifest.json of the cache directory
    payload_files,   \* payload_files[h]: the file <h>.json of the directory
    sess,            \* sess[s]: a ValidationCache session and the call it runs
    last_writer      \* history: the session that wrote the manifest file last

rowVars    == <<row_pc, schema, rules, data, row_errors, compiled_rules,
                compile_ret, rule_ret>>
dispVars   == <<d_pc, d_rows, chunk_size, workers, chunks, futures,
                all_results, d_result, completed, callback, faulty,
                cb_calls, d_exc, native, use_processes, writes>>
mrVars     == <<mr_pc, mr_chunks, mr_map_results, mr_result>>
streamVars == <<s_pc, framing, skip_header, lines, buffer_size, s_pos,
                buffer, row_count, yielded, s_exc>>
cacheVars  == <<now, ttl, max_cache_size, manifest_file, payload_files, sess,
                last_writer>>
vars       == <<rowVars, dispVars, mrVars, streamVars, cacheVars>>

-----------------------------------------------------------------------------
(* Bounds of the model *)

MaxFields   == 2   \* fields of a schema with more than one field
MaxRows     == 4   \* records of a dispatched file
MaxChunk    == 3   \* largest chunk_size
MaxWorkers  == 2   \* largest worker count
MaxLines    == 4   \* input items of a stream
MaxBuffer   == 3   \* largest buffer_size
MaxMapRows  == 3   \* records handed to the map phase
MaxClock    == 2   \* last instant of the clock
MaxTtl      == 2   \* largest ttl
MaxBudget   == 3   \* largest max_cache_size
MaxPayload  == 2   \* largest payload file

-----------------------------------------------------------------------------
(* Python values.  A value is [kind, n, s]: kind "none" is None, "int" and *)
(* "bool" keep their number in n, "str" keeps its text in s.               *)

None      == <<>>
Some(x)   == <<x>>
IsNone(o) == o = <<>>
Get(o)    == o[1]

NoneValue == [kind |-> "none", n |-> 0, s |-> ""]
IntV(i)   == [kind |-> "int",  n |-> i, s |-> ""]
StrV(t)   == [kind |-> "str",  n |-> 0, s |-> t]
BoolV(b)  == [kind |-> "bool", n |-> IF b THEN 1 ELSE 0, s |-> ""]

\* data.get(field_name): None for a missing key
DictGet(d, k) == IF k \in DOMAIN d THEN d[k] ELSE NoneValue

\* isinstance(value, field_type); bool is a subclass of int
IsInstance(v, t) ==
    CASE t = "str"   -> v.kind = "str"
      [] t = "int"   -> v.kind \in {"int", "bool"}
      [] t = "bool"  -> v.kind = "bool"
      [] t = "float" -> FALSE
      [] OTHER       -> FALSE

\* isinstance(value, (int, float))
IsNumber(v) == v.kind \in {"int", "bool"}

\* Python ==
PyEq(a, b) ==
    \/ IsNumber(a) /\ IsNumber(b) /\ a.n = b.n
    \/ a.kind = "str" /\ b.kind = "str" /\ a.s = b.s
    \/ a.kind = "none" /\ b.kind = "none"

\* value in choices
PyIn(v, list) == \E i \in 1..Len(list) : PyEq(list[i], v)

\* repr(value), as the f-string of the Choice message formats a list
PyRepr(v) ==
    CASE v.kind = "int"  -> ToString(v.n)
      [] v.kind = "bool" -> (IF v.n = 1 THEN "True" ELSE "False")
      [] v.kind = "str"  -> "'" \o v.s \o "'"
      [] OTHER           -> "None"

RECURSIVE ReprItems(_)
ReprItems(list) ==
    IF list = <<>> THEN ""
    ELSE IF Len(list) = 1 THEN PyRepr(list[1])
    ELSE PyRepr(list[1]) \o ", " \o ReprItems(Tail(list))

ReprList(list) == "[" \o ReprItems(list) \o "]"

\* pattern.match(value): the patterns of the model are literal texts, and
\* re.match anchors at the start of the string only
PatternMatch(p, t) == Len(t) >= Len(p) /\ SubSeq(t, 1, Len(p)) = p

\* field_def.field_type.__name__
TypeName(t) == t

-----------------------------------------------------------------------------
(* Field (schema.py).  Optional attributes are None or Some(x).            *)

\* A Field with every optional attribute at its default
Field(t) ==
    [field_type |-> t, required |-> FALSE, min |-> None, max |-> None,
     min_length |-> None, max_length |-> None, pattern |-> None,
     choices |-> None, custom_validator |-> None, error_message |-> None]

\* The custom validators of the model: what calling one on a value does.
\*   is_positive  : lambda v: v > 0   (raises TypeError on a str)
\*   always_false : lambda v: False
\*   raises       : lambda v: 1 / 0
CustomCall(f, v) ==
    CASE f = "is_positive" ->
            IF IsNumber(v)
            THEN [out |-> IF v.n > 0 THEN "true" ELSE "false", exc |-> ""]
            ELSE [out |-> "raise",
                  exc |-> "'>' not supported between instances of 'str' and 'int'"]
      [] f = "always_false" -> [out |-> "false", exc |-> ""]
      [] f = "raises"       -> [out |-> "raise", exc |-> "division by zero"]
      [] OTHER              -> [out |-> "true", exc |-> ""]

\* One entry of the list Schema.validate_dict returns.  The list holds plain
\* str messages; field and rule record which check of which field appended
\* the message (history, not stored by the program).
Err(f, r, m) == [field |-> f, rule |-> r, message |-> m]

FieldLabel(name) == "Field '" \o name \o "'"

\* Mutant of RequiredMissing: an empty string and zero count as missing
RequiredMissing_Falsy(fd, value) ==
    /\ fd.required
    /\ \/ value.kind = "none"
       \/ value.kind = "str" /\ value.s = ""
       \/ value.kind = "int" /\ value.n = 0

\* schema.py 136-138
RequiredMissing(fd, value) == fd.required /\ value.kind = "none"

\* schema.py 144
TypeMismatch(fd, value) == ~IsInstance(value, fd.field_type)

\* Mutant of RangeErrors: the two comparisons point the wrong way
RangeErrors_Reversed(name, fd, value) ==
    IF IsNumber(value)
    THEN (IF ~IsNone(fd.min) /\ value.n > Get(fd.min)
          THEN <<Err(name, "Range",
                     FieldLabel(name) \o " must be >= " \o ToString(Get(fd.min)))>>
          ELSE <<>>)
         \o
         (IF ~IsNone(fd.max) /\ value.n < Get(fd.max)
          THEN <<Err(name, "Range",
                     FieldLabel(name) \o " must be <= " \o ToString(Get(fd.max)))>>
          ELSE <<>>)
    ELSE <<>>

\* Mutant of RangeErrors: the bounds themselves are out of range
RangeErrors_Exclusive(name, fd, value) ==
    IF IsNumber(value)
    THEN (IF ~IsNone(fd.min) /\ value.n <= Get(fd.min)
          THEN <<Err(name, "Range",
                     FieldLabel(name) \o " must be >= " \o ToString(Get(fd.min)))>>
          ELSE <<>>)
         \o
         (IF ~IsNone(fd.max) /\ value.n >= Get(fd.max)
          THEN <<Err(name, "Range",
                     FieldLabel(name) \o " must be <= " \o ToString(Get(fd.max)))>>
          ELSE <<>>)
    ELSE <<>>

\* schema.py 150-155
RangeErrors(name, fd, value) ==
    IF IsNumber(value)
    THEN (IF ~IsNone(fd.min) /\ value.n < Get(fd.min)
          THEN <<Err(name, "Range",
                     FieldLabel(name) \o " must be >= " \o ToString(Get(fd.min)))>>
          ELSE <<>>)
         \o
         (IF ~IsNone(fd.max) /\ value.n > Get(fd.max)
          THEN <<Err(name, "Range",
                     FieldLabel(name) \o " must be <= " \o ToString(Get(fd.max)))>>
          ELSE <<>>)
    ELSE <<>>

\* schema.py 157-167
LengthErrors(name, fd, value) ==
    IF value.kind = "str"
    THEN (IF ~IsNone(fd.min_length) /\ Len(value.s) < Get(fd.min_length)
          THEN <<Err(name, "Length",
                     FieldLabel(name) \o " must have at least "
                       \o ToString(Get(fd.min_length)) \o " characters")>>
          ELSE <<>>)
         \o
         (IF ~IsNone(fd.max_length) /\ Len(value.s) > Get(fd.max_length)
          THEN <<Err(name, "Length",
                     FieldLabel(name) \o " must have at most "
                       \o ToString(Get(fd.max_length)) \o " characters")>>
          ELSE <<>>)
    ELSE <<>>

\* schema.py 169-174
PatternErrors(name, fd, value) ==
    IF ~IsNone(fd.pattern) /\ value.kind = "str"
       /\ ~PatternMatch(Get(fd.pattern), value.s)
    THEN <<Err(name, "Pattern",
               FieldLabel(name) \o " does not match required pattern")>>
    ELSE <<>>

\* schema.py 176-180
ChoiceErrors(name, fd, value) ==
    IF ~IsNone(fd.choices) /\ ~PyIn(value, Get(fd.choices))
    THEN <<Err(name, "Choice",
               FieldLabel(name) \o " must be one of " \o ReprList(Get(fd.choices)))>>
    ELSE <<>>

\* schema.py 182-189
CustomErrors(name, fd, value) ==
    IF IsNone(fd.custom_validator) THEN <<>>
    ELSE LET r == CustomCall(Get(fd.custom_validator), value) IN
         CASE r.out = "true"  -> <<>>
           [] r.out = "false" ->
                <<Err(name, "Custom",
                      IF ~IsNone(fd.error_message) /\ Get(fd.error_message) # ""
                      THEN Get(fd.error_message)
                      ELSE FieldLabel(name) \o " failed custom validation")>>
           [] OTHER ->
                <<Err(name, "Custom",
                      FieldLabel(name) \o " validation error: " \o r.exc)>>

\* The checks that follow a failed type check (schema.py 144-148: continue)
AfterTypeMismatch(name, fd, value) == <<>>

\* Mutant of FieldErrors: neither "continue" of the missing-value checks
\* (schema.py 138, 141) is taken, so a missing value goes on to the type check
FieldErrors_NoSkip(name, fd, d) ==
    LET value == DictGet(d, name) IN
    (IF RequiredMissing(fd, value)
     THEN <<Err(name, "Required", FieldLabel(name) \o " is required")>>
     ELSE <<>>)
    \o
    (IF TypeMismatch(fd, value)
     THEN <<Err(name, "TypeCheck",
                FieldLabel(name) \o " must be of type " \o TypeName(fd.field_type))>>
     ELSE RangeErrors(name, fd, value) \o LengthErrors(name, fd, value)
          \o PatternErrors(name, fd, value) \o ChoiceErrors(name, fd, value)
          \o CustomErrors(name, fd, value))

\* Mutant of FieldErrors: the constraint checks stop at the first failure
FieldErrors_FirstOnly(name, fd, d) ==
    LET value == DictGet(d, name)
        cs    == RangeErrors(name, fd, value) \o LengthErrors(name, fd, value)
                   \o PatternErrors(name, fd, value) \o ChoiceErrors(name, fd, value)
    IN  IF RequiredMissing(fd, value)
        THEN <<Err(name, "Required", FieldLabel(name) \o " is required")>>
        ELSE IF value.kind = "none" THEN <<>>
        ELSE IF TypeMismatch(fd, value)
        THEN <<Err(name, "TypeCheck",
                   FieldLabel(name) \o " must be of type " \o TypeName(fd.field_type))>>
        ELSE (IF cs = <<>> THEN <<>> ELSE <<cs[1]>>) \o CustomErrors(name, fd, value)

\* The body of the loop of Schema.validate_dict for one field
FieldErrors(name, fd, d) ==
    LET value == DictGet(d, name) IN
    IF RequiredMissing(fd, value)
    THEN <<Err(name, "Required", FieldLabel(name) \o " is required")>>
    ELSE IF value.kind = "none" THEN <<>>
    ELSE IF TypeMismatch(fd, value)
    THEN <<Err(name, "TypeCheck",
               FieldLabel(name) \o " must be of type " \o TypeName(fd.field_type))>>
         \o AfterTypeMismatch(name, fd, value)
    ELSE RangeErrors(name, fd, value) \o LengthErrors(name, fd, value)
         \o PatternErrors(name, fd, value) \o ChoiceErrors(name, fd, value)
         \o CustomErrors(name, fd, value)

\* Schema.validate_dict: the fields in insertion order
RECURSIVE SchemaValidateDict(_, _)
SchemaValidateDict(sch, d) ==
    IF sch = <<>> THEN <<>>
    ELSE FieldErrors(sch[1].name, sch[1].def, d)
         \o SchemaValidateDict(Tail(sch), d)

\* The function a ValidationRule wraps, called on the row: it returns True
\* ("true"), False ("false"), None ("none") or another value that is not a
\* bool ("other"), fails an assertion ("assert"), raises another exception
\* derived from Exception ("raise"), or is left by one that is not, as
\* KeyboardInterrupt or SystemExit ("interrupt"); exc is the text of the
\* exception
RuleFuncCall(rule) ==
    CASE rule.func \in {"true", "false", "none", "other"} ->
            [out |-> rule.func, exc |-> ""]
      [] rule.func = "interrupt" -> [out |-> "interrupt", exc |-> "KeyboardInterrupt"]
      [] OTHER -> [out |-> "raise", exc |-> rule.msg]

\* str(value)
PyStr(v) ==
    CASE v.kind = "int"  -> ToString(v.n)
      [] v.kind = "bool" -> (IF v.n = 1 THEN "True" ELSE "False")
      [] v.kind = "str"  -> v.s
      [] OTHER           -> "None"

\* The validator function rule(field, **conditions) builds (decorators.py
\* 71-98), called on a row whose attributes are the keys of d.  A condition
\* that is not given is None.  "<" and ">" between a str and a number and
\* len() of a number raise TypeError.
RuleValidator(field, conds, d) ==
    LET value  == DictGet(d, field)
        assert == [out |-> "raise", exc |-> "AssertionError"]
        terr   == [out |-> "raise", exc |-> "TypeError"]
        pass   == [out |-> "true", exc |-> ""]
    IN  IF value.kind = "none"
        THEN (IF conds.required THEN assert ELSE pass)
        ELSE IF ~IsNone(conds.min) /\ ~IsNumber(value) THEN terr
        ELSE IF ~IsNone(conds.min) /\ value.n < Get(conds.min) THEN assert
        ELSE IF ~IsNone(conds.max) /\ ~IsNumber(value) THEN terr
        ELSE IF ~IsNone(conds.max) /\ value.n > Get(conds.max) THEN assert
        ELSE IF ~IsNone(conds.min_length) /\ value.kind # "str" THEN terr
        ELSE IF ~IsNone(conds.min_length) /\ Len(value.s) < Get(conds.min_length)
        THEN assert
        ELSE IF ~IsNone(conds.max_length) /\ value.kind # "str" THEN terr
        ELSE IF ~IsNone(conds.max_length) /\ Len(value.s) > Get(conds.max_length)
        THEN assert
        ELSE IF ~IsNone(conds.pattern)
                /\ ~PatternMatch(Get(conds.pattern), PyStr(value))
        THEN assert
        ELSE pass

\* self.func(row) of a ValidationRule: a decorated function or the
\* validator of rule()
WrappedCall(rule, d) ==
    IF rule.func = "conditions"
    THEN RuleValidator(rule.field, rule.conds, d)
    ELSE RuleFuncCall(rule)

\* Mutant of RuleResult: the result of the function is taken by its truth
\* value, so None counts as a failure
RuleResult_Truthy(r) ==
    [raised |-> r.out = "interrupt",
     exc    |-> IF r.out = "interrupt" THEN r.exc ELSE "",
     value  |-> r.out \in {"true", "other"}]

\* ValidationRule.__call__ (decorators.py 17-28), given what self.func(row)
\* did: a bool result is returned, any other result is True, and both
\* except branches return False.  "except Exception" does not catch an
\* exception that derives from BaseException only, which leaves the call.
RuleResult(r) ==
    [raised |-> r.out = "interrupt",
     exc    |-> IF r.out = "interrupt" THEN r.exc ELSE "",
     value  |-> CASE r.out = "true"  -> TRUE
                  [] r.out = "false" -> FALSE
                  [] r.out \in {"none", "other"} -> TRUE
                  [] OTHER           -> FALSE]

\* rule_ret before a ValidationRule has been called
NoRuleRet == [kind |-> "none", value |-> FALSE, exc |-> ""]

\* rule(row) for a decorated function
RuleCall(rule) == RuleResult(RuleFuncCall(rule))

\* validator.py 153-166.  The except branches take what rule(row) raises
\* from Exception, which is nothing; the rules of rs are not interrupted
\* (RuleLists).
RECURSIVE RuleErrors(_)
RuleErrors(rs) ==
    IF rs = <<>> THEN <<>>
    ELSE LET c == RuleCall(rs[1]) IN
         (IF c.raised
          THEN <<Err("*", "Custom", rs[1].name \o ": " \o c.exc)>>
          ELSE IF ~c.value
          THEN <<Err("*", "Custom", "Rule '" \o rs[1].name \o "' failed")>>
          ELSE <<>>)
         \o RuleErrors(Tail(rs))

\* Mutant of ValidatorValidateDict: a key of the record that the schema does
\* not declare is reported as an error
ValidatorValidateDict_RejectExtra(sch, rs, d) ==
    SchemaValidateDict(sch, d) \o RuleErrors(rs)
      \o (IF \E k \in DOMAIN d : \A j \in 1..Len(sch) : sch[j].name # k
          THEN <<Err("*", "Extra", "Unexpected field")>>
          ELSE <<>>)

\* Mutant of ValidatorValidateDict: a None under a key the schema does not
\* declare is reported
ValidatorValidateDict_AllKeys(sch, rs, d) ==
    SchemaValidateDict(sch, d) \o RuleErrors(rs)
      \o (IF \E k \in DOMAIN d :
               d[k] = NoneValue /\ \A j \in 1..Len(sch) : sch[j].name # k
          THEN <<Err("*", "Required", "Missing value")>>
          ELSE <<>>)

\* Validator.validate_dict: the native engine is absent, so the except
\* branch runs Schema.validate_dict; then the row-level rules
ValidatorValidateDict(sch, rs, d) == SchemaValidateDict(sch, d) \o RuleErrors(rs)

-----------------------------------------------------------------------------
(* Compilation to the rule list of the native engine                       *)

\* The "params" dictionary of a compiled rule: each key is absent (None) or
\* present (Some)
NoParams == [type |-> None, min |-> None, max |-> None, pattern |-> None,
             callback |-> None]

\* One compiled rule
RustRule(n, f, rt, ps) == [name |-> n, field |-> f, rule_type |-> rt, params |-> ps]

\* type_map.get(self.field_type, "string") (schema.py 42-52)
TypeMap(t) ==
    CASE t = "str"   -> "string"
      [] t = "int"   -> "integer"
      [] t = "float" -> "number"
      [] t = "bool"  -> "boolean"
      [] OTHER       -> "string"

\* Field.to_rust_rules (schema.py 28-92)
ToRustRules(field_name, fd) ==
    (IF fd.required
     THEN <<RustRule(field_name \o "_required", field_name, "Required", NoParams)>>
     ELSE <<>>)
    \o
    <<RustRule(field_name \o "_type", field_name, "TypeCheck",
               [NoParams EXCEPT !.type = Some(TypeMap(fd.field_type))])>>
    \o
    (IF ~IsNone(fd.min) \/ ~IsNone(fd.max)
     THEN <<RustRule(field_name \o "_range", field_name, "Range",
                     [NoParams EXCEPT !.min = fd.min, !.max = fd.max])>>
     ELSE <<>>)
    \o
    (IF ~IsNone(fd.min_length) \/ ~IsNone(fd.max_length)
     THEN <<RustRule(field_name \o "_length", field_name, "Length",
                     [NoParams EXCEPT !.min = fd.min_length, !.max = fd.max_length])>>
     ELSE <<>>)
    \o
    (IF ~IsNone(fd.pattern)
     THEN <<RustRule(field_name \o "_pattern", field_name, "Pattern",
                     [NoParams EXCEPT !.pattern = fd.pattern])>>
     ELSE <<>>)

\* The loop of Schema.compile (schema.py 113-115)
RECURSIVE AllRules(_)
AllRules(sch) ==
    IF sch = <<>> THEN <<>>
    ELSE ToRustRules(sch[1].name, sch[1].def) \o AllRules(Tail(sch))

\* Schema.compile: cached is self._compiled_rules before the call; ret is
\* the list returned and cache is self._compiled_rules after the call
SchemaCompile(sch, cached) ==
    IF ~IsNone(cached)
    THEN [ret |-> Get(cached), cache |-> cached]
    ELSE [ret |-> AllRules(sch), cache |-> Some(AllRules(sch))]

\* The row-level rules of Validator._compile_rules (validator.py 50-56)
CustomRules(rs) ==
    [k \in 1..Len(rs) |->
        RustRule(rs[k].name, "*", "Custom",
                 [NoParams EXCEPT !.callback = Some(rs[k].func)])]

\* Validator._compile_rules
CompileRules(sch, cached, rs) ==
    LET c == SchemaCompile(sch, cached) IN
    [ret |-> c.ret \o CustomRules(rs), cache |-> c.cache]

-----------------------------------------------------------------------------
(* ValidationResult (types.py) and the results of the pipeline             *)

\* ValidationResult(valid_count, invalid_count, total_rows, errors)
ValidationResult(v, i, t, e) ==
    [valid_count |-> v, invalid_count |-> i, total_rows |-> t, errors |-> e]

\* ValidationResult() with the dataclass defaults
EmptyResult == ValidationResult(0, 0, 0, <<>>)

\* The errors of a row are str objects: a str has no row_index attribute.
NoRowIndex == -1

\* A record as a reader hands it over: pos is its zero-based position in
\* the input (history), data the dictionary.
Row(p, d) == [pos |-> p, data |-> d]

\* An error as it sits in a result: the message of validate_dict, with the
\* row it came from as history (origin) and the row_index it carries.
ResultError(e, r) ==
    [field |-> e.field, rule |-> e.rule, message |-> e.message,
     row_index |-> NoRowIndex, origin |-> r.pos]

TagErrors(es, r) == [k \in 1..Len(es) |-> ResultError(es[k], r)]

-----------------------------------------------------------------------------
(* Content cache (caching.py): files, manifest and payloads                *)

\* Content hashes (_get_file_hash) of the byte-distinct inputs of the model
Hashes   == {"h1", "h2", "h3"}
Sessions == {1, 2}

\* A file of the cache directory.  kind is "absent", "json" (a complete JSON
\* document: content holds it) or "torn" (empty or mixed text that json.load
\* rejects); len is its size in bytes (st_size).
AbsentFile(blank) == [kind |-> "absent", len |-> 0, content |-> blank]

\* open(path, 'w'): the file exists and is empty
Truncate(f, blank) == [kind |-> "torn", len |-> 0, content |-> blank]

\* json.dump(doc, f) and close, on a handle opened with 'w': the text goes to
\* offset 0; bytes another writer left beyond its end stay in the file
WriteFile(f, doc, n, blank) ==
    IF n >= f.len
    THEN [kind |-> "json", len |-> n, content |-> doc]
    ELSE [kind |-> "torn", len |-> f.len, content |-> blank]

\* The manifest is a dict in insertion order: a sequence of entries
\* [hash, created_at].  Its text grows with its entries.
NoManifest       == <<>>
InManifest(m, h) == \E i \in 1..Len(m) : m[i].hash = h
EntryOf(m, h)    == m[CHOOSE i \in 1..Len(m) : m[i].hash = h]

\* self.manifest[file_hash] = {...} (caching.py 135-139): a key already
\* present keeps its place, a new key goes last
SetEntry(m, h, t) ==
    IF InManifest(m, h)
    THEN [i \in 1..Len(m) |->
            IF m[i].hash = h THEN [hash |-> h, created_at |-> t] ELSE m[i]]
    ELSE Append(m, [hash |-> h, created_at |-> t])

\* del self.manifest[file_hash]
DelEntry(m, h) == SelectSeq(m, LAMBDA e : e.hash # h)

\* cache_data (caching.py 118-128): the fields of a payload the model keeps
NoPayload == [valid_count |-> 0, invalid_count |-> 0, total_rows |-> 0,
              errors_count |-> 0]
CacheData(result) ==
    [valid_count |-> result.valid_count, invalid_count |-> result.invalid_count,
     total_rows |-> result.total_rows, errors_count |-> Len(result.errors)]

\* cache_file.unlink() on the files of the hashes hs
Unlink(files, hs) ==
    [h \in Hashes |-> IF h \in hs THEN AbsentFile(NoPayload) ELSE files[h]]

\* Mutant of IsCacheValid: an entry is still valid at the age ttl
IsCacheValid_Inclusive(m, h, t, life) ==
    InManifest(m, h) /\ t - EntryOf(m, h).created_at <= life

\* _is_cache_valid (caching.py 80-88)
IsCacheValid(m, h, t, life) ==
    InManifest(m, h) /\ t - EntryOf(m, h).created_at < life

\* What a call returned: nothing yet or None ("none"), a bool, a
\* ValidationResult, or an exception that left the call ("exc")
RetNone      == [kind |-> "none", hit |-> FALSE, result |-> EmptyResult]
RetBool(b)   == [kind |-> "bool", hit |-> b, result |-> EmptyResult]
RetResult(r) == [kind |-> "result", hit |-> TRUE, result |-> r]
RetExc       == [kind |-> "exc", hit |-> FALSE, result |-> EmptyResult]

\* A session: pc is "off" (never built), "none" (not built yet), "failed"
\* (__init__ raised), "ready" (between calls) or the place inside a call;
\* manifest is self.manifest; op, key, result and size are the call running
\* or returned last and its arguments; after says where the call goes once
\* the manifest is written; ret is what the call returned; fd_live says the
\* payload handle the call holds open still names the file; evicted is the
\* eviction history of the last _cleanup_cache, at the created_at of the
\* manifest entry the call wrote or read, validated whether the call ran
\* the wrapped validator, and prev what the validate_csv call just before
\* this one returned for the same file, with its at (history)
NewSession(pc) ==
    [pc |-> pc, manifest |-> NoManifest, op |-> "", key |-> "",
     result |-> EmptyResult, size |-> 0, after |-> "", ret |-> RetNone,
     fd_live |-> FALSE, evicted |-> <<>>, at |-> 0, validated |-> FALSE,
     prev |-> [ret |-> RetNone, at |-> 0]]

\* A call starts in a session that is between calls
StartCall(se, op, h) ==
    [se EXCEPT !.op = op, !.key = h, !.result = EmptyResult, !.size = 0,
               !.ret = RetNone, !.evicted = <<>>, !.at = 0,
               !.validated = FALSE, !.prev = [ret |-> RetNone, at |-> 0]]

\* A call returns (or raises, ret.kind = "exc")
ReturnCall(se, ret) ==
    [se EXCEPT !.pc = "ready", !.ret = ret, !.after = "", !.fd_live = FALSE]

\* Mutant of LoadResult: valid_count and invalid_count change places
LoadResult_Swapped(m, files, h, t, life) ==
    IF ~IsCacheValid(m, h, t, life) THEN RetNone
    ELSE IF files[h].kind = "absent" THEN RetNone
    ELSE IF files[h].kind = "torn" THEN RetExc
    ELSE RetResult(ValidationResult(files[h].content.invalid_count,
                                    files[h].content.valid_count,
                                    files[h].content.total_rows, <<>>))

\* load_result (caching.py 154-173)
LoadResult(m, files, h, t, life) ==
    IF ~IsCacheValid(m, h, t, life) THEN RetNone
    ELSE IF files[h].kind = "absent" THEN RetNone
    ELSE IF files[h].kind = "torn" THEN RetExc
    ELSE RetResult(ValidationResult(files[h].content.valid_count,
                                    files[h].content.invalid_count,
                                    files[h].content.total_rows, <<>>))

\* _load_manifest (caching.py 51-57)
LoadManifest(f) ==
    CASE f.kind = "absent" -> [raised |-> FALSE, manifest |-> NoManifest]
      [] f.kind = "json"   -> [raised |-> FALSE, manifest |-> f.content]
      [] OTHER             -> [raised |-> TRUE,  manifest |-> NoManifest]

\* sum of st_size over the listed hashes whose file exists (caching.py 220-224)
RECURSIVE CacheSize(_, _)
CacheSize(m, files) ==
    IF m = <<>> THEN 0
    ELSE (IF files[m[1].hash].kind # "absent" THEN files[m[1].hash].len ELSE 0)
         + CacheSize(Tail(m), files)

\* Mutant of EntriesByDate: the newest entry comes first
RECURSIVE EntriesByDate_NewestFirst(_)
EntriesByDate_NewestFirst(m) ==
    IF m = <<>> THEN <<>>
    ELSE LET i == CHOOSE i \in 1..Len(m) :
                    \A j \in 1..Len(m) :
                        \/ m[j].created_at < m[i].created_at
                        \/ m[j].created_at = m[i].created_at /\ j >= i
         IN  <<m[i]>> \o EntriesByDate_NewestFirst(
                            SubSeq(m, 1, i - 1) \o SubSeq(m, i + 1, Len(m)))

\* sorted(self.manifest.items(), key=created_at) (caching.py 228-231): a
\* stable sort, entries of one timestamp keep their insertion order
RECURSIVE EntriesByDate(_)
EntriesByDate(m) ==
    IF m = <<>> THEN <<>>
    ELSE LET i == CHOOSE i \in 1..Len(m) :
                    \A j \in 1..Len(m) :
                        \/ m[j].created_at > m[i].created_at
                        \/ m[j].created_at = m[i].created_at /\ j >= i
         IN  <<m[i]>> \o EntriesByDate(
                            SubSeq(m, 1, i - 1) \o SubSeq(m, i + 1, Len(m)))

\* Mutant of EvictLoop: the first eviction ends the loop
EvictLoop_Once(entries, m, files, cache_size, budget, evicted) ==
    IF entries = <<>> \/ cache_size <= budget
    THEN [manifest |-> m, files |-> files, evicted |-> evicted]
    ELSE [manifest |-> DelEntry(m, entries[1].hash),
          files    |-> Unlink(files, {entries[1].hash}),
          evicted  |-> Append(evicted, [hash |-> entries[1].hash,
                                        created_at |-> entries[1].created_at,
                                        total_before |-> CacheSize(m, files)])]

\* The loop that evicts (caching.py 233-242).  evicted is history: each
\* evicted entry with the total size of the listed payloads before it went
RECURSIVE EvictLoop(_, _, _, _, _, _)
EvictLoop(entries, m, files, cache_size, budget, evicted) ==
    IF entries = <<>> \/ cache_size <= budget
    THEN [manifest |-> m, files |-> files, evicted |-> evicted]
    ELSE LET h    == entries[1].hash
             size == IF files[h].kind # "absent" THEN files[h].len ELSE 0
         IN  EvictLoop(Tail(entries), DelEntry(m, h), Unlink(files, {h}),
                       cache_size - size, budget,
                       Append(evicted, [hash |-> h,
                                        created_at |-> entries[1].created_at,
                                        total_before |-> CacheSize(m, files)]))

\* Mutant of CleanupCache: expired entries are left alone
CleanupCache_NoExpiry(m, files, t, life, budget) ==
    LET size == CacheSize(m, files) IN
    IF size > budget
    THEN EvictLoop(EntriesByDate(m), m, files, size, budget, <<>>)
    ELSE [manifest |-> m, files |-> files, evicted |-> <<>>]

\* _cleanup_cache up to its _save_manifest (caching.py 203-242)
CleanupCache(m, files, t, life, budget) ==
    LET expired == {m[i].hash : i \in {j \in 1..Len(m) : t - m[j].created_at >= life}}
        m1      == SelectSeq(m, LAMBDA e : e.hash \notin expired)
        files1  == Unlink(files, expired)
        size    == CacheSize(m1, files1)
    IN  IF size > budget
        THEN EvictLoop(EntriesByDate(m1), m1, files1, size, budget, <<>>)
        ELSE [manifest |-> m1, files |-> files1, evicted |-> <<>>]

-----------------------------------------------------------------------------
(* Idle components: a behaviour runs one component, the others stay idle   *)

\* (the schema belongs to whichever component runs)
IdleRow ==
    /\ row_pc = "idle" /\ rules = <<>> /\ data = <<>> /\ row_errors = <<>>
    /\ compiled_rules = None /\ compile_ret = None
    /\ rule_ret = NoRuleRet

IdleDispatch ==
    /\ d_pc = "idle" /\ d_rows = <<>> /\ chunk_size = 1 /\ workers = 1
    /\ chunks = <<>> /\ futures = <<>> /\ all_results = <<>>
    /\ d_result = EmptyResult /\ completed = <<>>
    /\ callback = "none" /\ faulty = {} /\ cb_calls = <<>> /\ d_exc = ""
    /\ native = FALSE /\ use_processes = FALSE /\ writes = {}

IdleMapReduce ==
    /\ mr_pc = "idle" /\ mr_chunks = <<>> /\ mr_map_results = <<>>
    /\ mr_result = EmptyResult

IdleCache ==
    /\ now = 0 /\ ttl = 1 /\ max_cache_size = 1
    /\ manifest_file = AbsentFile(NoManifest)
    /\ payload_files = [h \in Hashes |-> AbsentFile(NoPayload)]
    /\ sess = [s \in Sessions |-> NewSession("off")]
    /\ last_writer = 0

IdleStream ==
    /\ s_pc = "idle" /\ framing = "csv" /\ skip_header = TRUE /\ lines = <<>>
    /\ buffer_size = 1 /\ s_pos = 0 /\ buffer = <<>> /\ row_count = 0
    /\ yielded = <<>> /\ s_exc = ""

-----------------------------------------------------------------------------
(* Row validation: inputs and the call                                     *)

FieldNames == <<"id", "age", "name", "email">>

\* Field definitions of a one-field schema
CustomChoices ==
    {<<None, None>>}
      \cup ({Some("is_positive"), Some("always_false"), Some("raises")}
              \X {None, Some("bad value")})

FieldDefs ==
    { [field_type |-> t, required |-> r, min |-> mn, max |-> mx,
       min_length |-> nl, max_length |-> xl, pattern |-> p, choices |-> c,
       custom_validator |-> cm[1], error_message |-> cm[2]] :
        t \in {"str", "int"}, r \in BOOLEAN,
        mn \in {None, Some(18)}, mx \in {None, Some(120)},
        nl \in {None, Some(2)}, xl \in {None, Some(3)},
        p \in {None, Some("a")},
        c \in {None, Some(<<IntV(18), StrV("ab")>>)},
        cm \in CustomChoices }

FieldValues ==
    {NoneValue, BoolV(TRUE), BoolV(FALSE)}
      \cup {IntV(i) : i \in {0, 17, 18, 120, 121}}
      \cup {StrV(t) : t \in {"", "a", "ab", "abc", "abcd", "bc"}}

\* Field definitions and values of the schemas with several fields
IdField  == [Field("str") EXCEPT !.required = TRUE]
AgeField == [Field("int") EXCEPT !.min = Some(18), !.max = Some(120)]
PosField == [Field("int") EXCEPT !.required = TRUE,
                                 !.custom_validator = Some("is_positive")]

\* Schema({'id': Field(str, required=True), 'age': Field(int, min=18, max=120)})
C9Schema ==
    <<[name |-> "id", def |-> IdField], [name |-> "age", def |-> AgeField]>>

SmallDefs   == {IdField, AgeField, PosField}
SmallValues == {NoneValue, IntV(15), IntV(30), IntV(200), StrV("1"), StrV("2")}

\* Dictionaries whose keys are among ks
DictsOver(ks, values) == UNION { [K -> values] : K \in SUBSET ks }

NameSet(k) == {FieldNames[j] : j \in 1..k}

\* Schemas of k fields named FieldNames[1..k], in that insertion order
SchemasOf(k) ==
    { [j \in 1..k |-> [name |-> FieldNames[j], def |-> ds[j]]] :
        ds \in [1..k -> SmallDefs] }

RuleFuncs == {"true", "false", "none", "assert", "raise"}
RuleMsgs  == {"", "Must be 18 or older"}
RuleDefs  ==
    { r \in [name : {"check_row"}, func : RuleFuncs, msg : RuleMsgs] :
        r.func \in {"assert", "raise"} \/ r.msg = "" }
\* No rule, one rule, or a failing assertion followed by a second rule
RuleLists ==
    {<<>>} \cup {<<r>> : r \in RuleDefs}
      \cup {<<r, [name |-> "check_total", func |-> "false", msg |-> ""]>> :
               r \in {d \in RuleDefs : d.func = "assert"}}

InitRow ==
    /\ row_pc = "call"
    /\ row_errors = <<>>
    /\ compiled_rules = None /\ compile_ret = None
    /\ rule_ret = NoRuleRet
    /\ \/ /\ \E fd \in FieldDefs : schema = <<[name |-> "age", def |-> fd]>>
          /\ data \in DictsOver({"age"}, FieldValues)
          /\ rules = <<>>
       \/ /\ \E k \in 0..MaxFields : schema \in SchemasOf(k)
          /\ data \in DictsOver(NameSet(MaxFields), SmallValues)
          /\ rules \in RuleLists
    /\ IdleDispatch /\ IdleMapReduce /\ IdleStream /\ IdleCache

\* One call of Validator.validate_dict(data)
CallValidateDict ==
    /\ row_pc = "call"
    /\ row_errors' = ValidatorValidateDict(schema, rules, data)
    /\ row_pc' = "returned"
    /\ UNCHANGED <<schema, rules, data, compiled_rules, compile_ret, rule_ret>>
    /\ UNCHANGED <<dispVars, mrVars, streamVars, cacheVars>>

\* One call of schema.compile(): the list is built on the first call and
\* the cached list is returned afterwards
CallSchemaCompile ==
    /\ row_pc \in {"call", "compiled"}
    /\ LET r == SchemaCompile(schema, compiled_rules) IN
       /\ compiled_rules' = r.cache
       /\ compile_ret' = Some(r.ret)
    /\ row_pc' = "compiled"
    /\ UNCHANGED <<schema, rules, data, row_errors, rule_ret>>
    /\ UNCHANGED <<dispVars, mrVars, streamVars, cacheVars>>

\* One call of validator._compile_rules()
CallCompileRules ==
    /\ row_pc \in {"call", "compiled"}
    /\ LET r == CompileRules(schema, compiled_rules, rules) IN
       /\ compiled_rules' = r.cache
       /\ compile_ret' = Some(r.ret)
    /\ row_pc' = "compiled"
    /\ UNCHANGED <<schema, rules, data, row_errors, rule_ret>>
    /\ UNCHANGED <<dispVars, mrVars, streamVars, cacheVars>>

NextRow == CallValidateDict \/ CallSchemaCompile \/ CallCompileRules

SpecRow == InitRow /\ [][NextRow]_vars

\* A ValidationRule called on a row by itself.  The rule wraps a decorated
\* function (@validate) or the validator of rule("age", **conditions).
WrappedFuncs ==
    { [name |-> "check_row", func |-> f, msg |-> m] :
        f \in {"true", "false", "none", "other", "interrupt"}, m \in {""} }
    \cup { [name |-> "check_row", func |-> f, msg |-> "Must be 18 or older"] :
             f \in {"assert", "raise"} }

ConditionRules ==
    { [name |-> "age_rule", func |-> "conditions", msg |-> "", field |-> "age",
       conds |-> [required |-> r, min |-> mn, max |-> mx, min_length |-> nl,
                  max_length |-> xl, pattern |-> p]] :
        r \in BOOLEAN, mn \in {None, Some(18)}, mx \in {None, Some(120)},
        nl \in {None, Some(2)}, xl \in {None, Some(3)},
        p \in {None, Some("1")} }

InitRule ==
    /\ row_pc = "rule"
    /\ schema = <<>>
    /\ row_errors = <<>>
    /\ compiled_rules = None /\ compile_ret = None
    /\ rule_ret = NoRuleRet
    /\ \E r \in WrappedFuncs \cup ConditionRules : rules = <<r>>
    /\ data \in DictsOver({"age"}, FieldValues)
    /\ IdleDispatch /\ IdleMapReduce /\ IdleStream /\ IdleCache

\* One call rule(row) of the ValidationRule rules[1] on the row data
CallRule ==
    /\ row_pc = "rule"
    /\ LET c == RuleResult(WrappedCall(rules[1], data)) IN
       rule_ret' = IF c.raised
                   THEN [kind |-> "exc", value |-> FALSE, exc |-> c.exc]
                   ELSE [kind |-> "bool", value |-> c.value, exc |-> ""]
    /\ row_pc' = "rule_returned"
    /\ UNCHANGED <<schema, rules, data, row_errors, compiled_rules, compile_ret>>
    /\ UNCHANGED <<dispVars, mrVars, streamVars, cacheVars>>

SpecRule == InitRule /\ [][CallRule]_vars

-----------------------------------------------------------------------------
(* Chunked validation (distributed.py, s3.py)                              *)

\* The records of a file as csv.DictReader yields them, in file order
FileRows(ds) == [k \in 1..Len(ds) |-> Row(k - 1, ds[k])]

\* Mutant of ReadChunksFrom: a chunk is closed when it exceeds chunk_size
RECURSIVE ReadChunksFrom_Over(_, _, _, _)
ReadChunksFrom_Over(rows, cs, chunks_, current_chunk) ==
    IF rows = <<>>
    THEN (IF current_chunk # <<>> THEN Append(chunks_, current_chunk) ELSE chunks_)
    ELSE LET cur == Append(current_chunk, Head(rows)) IN
         IF Len(cur) > cs
         THEN ReadChunksFrom_Over(Tail(rows), cs, Append(chunks_, cur), <<>>)
         ELSE ReadChunksFrom_Over(Tail(rows), cs, chunks_, cur)

\* The loop of _read_csv_chunks (distributed.py 111-119; s3.py 114-121)
RECURSIVE ReadChunksFrom(_, _, _, _)
ReadChunksFrom(rows, cs, chunks_, current_chunk) ==
    IF rows = <<>>
    THEN (IF current_chunk # <<>> THEN Append(chunks_, current_chunk) ELSE chunks_)
    ELSE LET cur == Append(current_chunk, Head(rows)) IN
         IF Len(cur) >= cs
         THEN ReadChunksFrom(Tail(rows), cs, Append(chunks_, cur), <<>>)
         ELSE ReadChunksFrom(Tail(rows), cs, chunks_, cur)

\* Mutant of ReadCsvChunks: the rows left over after the last full chunk
\* are not appended
ReadCsvChunks_DropTail(rows, cs) ==
    LET all == ReadChunksFrom(rows, cs, <<>>, <<>>) IN
    SelectSeq(all, LAMBDA c : Len(c) >= cs)

\* _read_csv_chunks
ReadCsvChunks(rows, cs) == ReadChunksFrom(rows, cs, <<>>, <<>>)

\* The loop of _validate_chunk (distributed.py 132-137; s3.py 244-251):
\* [valid, errors] after the rows given
RECURSIVE ChunkLoop(_, _, _, _)
ChunkLoop(sch, rows, total_valid, total_errors) ==
    IF rows = <<>> THEN [valid |-> total_valid, errors |-> total_errors]
    ELSE LET errors == ValidatorValidateDict(sch, <<>>, Head(rows).data) IN
         IF errors = <<>>
         THEN ChunkLoop(sch, Tail(rows), total_valid + 1, total_errors)
         ELSE ChunkLoop(sch, Tail(rows), total_valid,
                        total_errors \o TagErrors(errors, Head(rows)))

\* Mutant of ValidateChunk: invalid_count counts the errors, not the rows
ValidateChunk_CountErrors(sch, chunk, chunk_num) ==
    LET r == ChunkLoop(sch, chunk, 0, <<>>) IN
    ValidationResult(r.valid, Len(r.errors), Len(chunk), r.errors)

\* DistributedValidator._validate_chunk / S3Validator._validate_chunk
\* (chunk_num is not used by the code)
ValidateChunk(sch, chunk, chunk_num) ==
    LET r == ChunkLoop(sch, chunk, 0, <<>>) IN
    ValidationResult(r.valid, Len(chunk) - r.valid, Len(chunk), r.errors)

\* Mutant of SumOf: the last part stands for the sum
SumOf_Last(rs, fld) == IF rs = <<>> THEN 0 ELSE rs[Len(rs)][fld]

\* sum(r.<fld> for r in results)
RECURSIVE SumOf(_, _)
SumOf(rs, fld) == IF rs = <<>> THEN 0 ELSE rs[1][fld] + SumOf(Tail(rs), fld)

RECURSIVE ExtendAll(_, _)
ExtendAll(rs, fld) == IF rs = <<>> THEN <<>> ELSE rs[1][fld] \o ExtendAll(Tail(rs), fld)

\* DistributedValidator._aggregate_results / S3Validator._aggregate_results
AggregateResults(results) ==
    ValidationResult(SumOf(results, "valid_count"), SumOf(results, "invalid_count"),
                     SumOf(results, "total_rows"), ExtendAll(results, "errors"))

\* MapReduceValidator.map_validate_chunk: the dict it returns
MapValidateChunk(sch, chunk_data) ==
    LET r == ChunkLoop(sch, chunk_data, 0, <<>>) IN
    [valid |-> r.valid, invalid |-> Len(chunk_data) - r.valid,
     total |-> Len(chunk_data), errors |-> r.errors]

\* MapReduceValidator.reduce_results
ReduceResults(map_results) ==
    ValidationResult(SumOf(map_results, "valid"), SumOf(map_results, "invalid"),
                     SumOf(map_results, "total"), ExtendAll(map_results, "errors"))

-----------------------------------------------------------------------------
(* validate_csv_parallel (distributed.py 53-99); S3Validator.validate      *)
(* (s3.py 110-145) has the same steps.  The executor takes queued units in *)
(* submission order, runs at most "workers" of them at a time, and they    *)
(* finish in any order; that holds for the thread pool and for the process *)
(* pool (use_processes) alike.                                             *)

\* csv.DictReader yields str values, and None for a column a short line
\* lacks; the same dictionaries are lines of a JSONL input.
\* Schema({'id': Field(str, required=True),
\*         'name': Field(str, min_length=2, max_length=3)})
NameField == [Field("str") EXCEPT !.min_length = Some(2), !.max_length = Some(3)]
PipelineSchema ==
    <<[name |-> "id", def |-> IdField], [name |-> "name", def |-> NameField]>>

PipelineDicts ==
    { [id |-> StrV("1"), name |-> StrV("ab")],   \* valid
      [id |-> StrV("2"), name |-> StrV("a")],    \* one error
      [id |-> NoneValue, name |-> StrV("abcd")] } \* two errors

SeqsUpTo(S, n) == UNION { [1..k -> S] : k \in 0..n }

InitDispatch ==
    /\ d_pc = "start"
    /\ schema = PipelineSchema
    /\ d_rows \in SeqsUpTo(PipelineDicts, MaxRows)
    /\ chunk_size \in 1..MaxChunk
    /\ workers \in 1..MaxWorkers
    /\ chunks = <<>> /\ futures = <<>> /\ all_results = <<>>
    /\ d_result = EmptyResult /\ completed = <<>>
    /\ callback = "none" /\ faulty = {} /\ cb_calls = <<>> /\ d_exc = ""
    /\ native = FALSE /\ use_processes = FALSE /\ writes = {}
    /\ IdleRow /\ IdleMapReduce /\ IdleStream /\ IdleCache

Running == {i \in 1..Len(futures) : futures[i].state = "running"}
Queued  == {i \in 1..Len(futures) : futures[i].state = "queued"}

\* chunks = self._read_csv_chunks(filepath)
ReadChunks ==
    /\ d_pc = "start"
    /\ chunks' = ReadCsvChunks(FileRows(d_rows), chunk_size)
    /\ d_pc' = "submit"
    /\ writes' = writes \cup {[by |-> 0, target |-> "chunks", owner |-> 0]}
    /\ UNCHANGED <<d_rows, chunk_size, workers, futures, all_results,
                   d_result, completed, callback, faulty, native, use_processes,
                   cb_calls, d_exc>>
    /\ UNCHANGED <<rowVars, mrVars, streamVars, cacheVars>>

\* executor.submit(self._validate_chunk, chunk, chunk_num), one chunk per step
Submit ==
    /\ d_pc = "submit"
    /\ IF Len(futures) < Len(chunks)
       THEN /\ futures' = Append(futures, [state |-> "queued", result |-> EmptyResult,
                                            compiles |-> FALSE])
            /\ d_pc' = d_pc
       ELSE /\ d_pc' = "collect"
            /\ futures' = futures
    /\ UNCHANGED <<d_rows, chunk_size, workers, chunks, all_results,
                   d_result, completed, callback, faulty, native, use_processes,
                   cb_calls, d_exc, writes>>
    /\ UNCHANGED <<rowVars, mrVars, streamVars, cacheVars>>

\* The schema object a unit validates with: self.schema itself in a thread
\* pool; in a process pool the bound method is pickled with self, and the
\* unit works on its own copy, made while _compiled_rules is as the caller
\* left it.
UnitSeesCache == IF use_processes THEN None ELSE compiled_rules

\* A free worker takes the oldest queued unit.  The executor works inside
\* the with block and in its __exit__, which is shutdown(wait=True) and lets
\* the units already submitted run.  The unit's first validate_dict makes
\* its Validator call _get_rust_validator: when the import succeeds,
\* _compile_rules calls Schema.compile, which tests "_compiled_rules is
\* None" (validator.py 60-66, 43-45; schema.py 108-110).
StartUnit ==
    /\ d_pc \in {"submit", "collect", "callback", "exit"}
    /\ Queued # {}
    /\ Cardinality(Running) < workers
    /\ LET i == CHOOSE q \in Queued : \A o \in Queued : q <= o IN
       futures' = [futures EXCEPT ![i].state = "running",
                                  ![i].compiles = native /\ UnitSeesCache = None]
    /\ UNCHANGED <<d_pc, d_rows, chunk_size, workers, chunks, all_results,
                   d_result, completed, callback, faulty, native, use_processes,
                   cb_calls, d_exc, writes>>
    /\ UNCHANGED <<rowVars, mrVars, streamVars, cacheVars>>

\* What the worker of unit i writes: the ValidationResult it builds, and,
\* when its Schema.compile found no cached list, self._compiled_rules of
\* the schema it validates with (schema.py 117).  owner is 0 for an object
\* of the calling thread that every unit shares, i for one that only unit
\* i holds.
UnitWrites(i) ==
    { [by |-> i, target |-> "result", owner |-> i] }
    \cup (IF futures[i].compiles
          THEN { [by |-> i, target |-> "schema._compiled_rules",
                  owner |-> IF use_processes THEN i ELSE 0] }
          ELSE {})

\* A running unit returns from _validate_chunk, or raises out of it.  The
\* rows' errors are those of Schema.validate_dict under either engine.
FinishUnit ==
    /\ d_pc \in {"submit", "collect", "callback", "exit"}
    /\ \E i \in Running :
          /\ futures' = [futures EXCEPT
                           ![i].state  = IF (i - 1) \in faulty THEN "failed" ELSE "done",
                           ![i].result = IF (i - 1) \in faulty
                                         THEN EmptyResult
                                         ELSE ValidateChunk(schema, chunks[i], i - 1)]
          /\ completed' = Append(completed, i - 1)
          /\ writes' = writes \cup UnitWrites(i)
          /\ compiled_rules' =
                IF futures[i].compiles /\ ~use_processes
                THEN SchemaCompile(schema, None).cache
                ELSE compiled_rules
    /\ UNCHANGED <<d_pc, d_rows, chunk_size, workers, chunks, all_results,
                   d_result, callback, faulty, native, use_processes, cb_calls, d_exc>>
    /\ UNCHANGED <<row_pc, schema, rules, data, row_errors, compile_ret,
                   rule_ret>>
    /\ UNCHANGED <<mrVars, streamVars, cacheVars>>

\* Mutant of CollectIndex: the caller takes the results as the units
\* complete (as_completed) instead of walking the futures list
CollectIndex_AsCompleted ==
    IF Len(all_results) < Len(completed)
    THEN completed[Len(all_results) + 1] + 1
    ELSE Len(futures) + 1

\* for i, future in enumerate(futures): the future the caller waits for
CollectIndex == Len(all_results) + 1

\* Mutant of Collect: a unit that raised counts as an empty result
Collect_SkipFailed ==
    /\ d_pc = "collect"
    /\ CollectIndex \in 1..Len(futures)
    /\ futures[CollectIndex].state \in {"done", "failed"}
    /\ all_results' = Append(all_results, futures[CollectIndex].result)
    /\ d_pc' = IF callback = "none" THEN "collect" ELSE "callback"
    /\ UNCHANGED <<d_rows, chunk_size, workers, chunks, futures,
                   d_result, completed, callback, faulty, native, use_processes,
                   cb_calls, d_exc, writes>>
    /\ UNCHANGED <<rowVars, mrVars, streamVars, cacheVars>>

\* Mutant of Collect: the caller does not wait for the future it takes
Collect_NoWait ==
    /\ d_pc = "collect"
    /\ CollectIndex \in 1..Len(futures)
    /\ all_results' = Append(all_results, futures[CollectIndex].result)
    /\ d_pc' = IF callback = "none" THEN "collect" ELSE "callback"
    /\ UNCHANGED <<d_rows, chunk_size, workers, chunks, futures,
                   d_result, completed, callback, faulty, native, use_processes,
                   cb_calls, d_exc, writes>>
    /\ UNCHANGED <<rowVars, mrVars, streamVars, cacheVars>>

\* result = future.result(); all_results.append(result).  future.result()
\* raises what the unit raised, which leaves the with block.
Collect ==
    /\ d_pc = "collect"
    /\ CollectIndex \in 1..Len(futures)
    /\ futures[CollectIndex].state \in {"done", "failed"}
    /\ IF futures[CollectIndex].state = "failed"
       THEN /\ d_pc' = "exit"
            /\ d_exc' = "unit"
            /\ UNCHANGED all_results
       ELSE /\ all_results' = Append(all_results, futures[CollectIndex].result)
            /\ d_pc' = IF callback = "none" THEN "collect" ELSE "callback"
            /\ UNCHANGED d_exc
    /\ writes' = IF futures[CollectIndex].state = "failed"
                 THEN writes
                 ELSE writes \cup {[by |-> 0, target |-> "all_results", owner |-> 0]}
    /\ UNCHANGED <<d_rows, chunk_size, workers, chunks, futures,
                   d_result, completed, callback, faulty, native, use_processes, cb_calls>>
    /\ UNCHANGED <<rowVars, mrVars, streamVars, cacheVars>>

\* Mutant of InvokeCallback: the callback is given the 0-based loop index
InvokeCallback_ZeroBased ==
    /\ d_pc = "callback"
    /\ cb_calls' = Append(cb_calls,
          [chunk          |-> Len(all_results) - 1,
           total_chunks   |-> Len(futures),
           valid_so_far   |-> SumOf(all_results, "valid_count"),
           invalid_so_far |-> SumOf(all_results, "invalid_count")])
    /\ IF callback = "raises"
       THEN d_pc' = "exit" /\ d_exc' = "callback"
       ELSE d_pc' = "collect" /\ UNCHANGED d_exc
    /\ UNCHANGED <<d_rows, chunk_size, workers, chunks, futures, all_results,
                   d_result, completed, callback, faulty, native, use_processes,
                   writes>>
    /\ UNCHANGED <<rowVars, mrVars, streamVars, cacheVars>>

\* if callback: callback({...}) (distributed.py 91-97, s3.py 136-143), run
\* by the thread that collects; an exception of the callback leaves the
\* with block
InvokeCallback ==
    /\ d_pc = "callback"
    /\ cb_calls' = Append(cb_calls,
          [chunk          |-> Len(all_results),
           total_chunks   |-> Len(futures),
           valid_so_far   |-> SumOf(all_results, "valid_count"),
           invalid_so_far |-> SumOf(all_results, "invalid_count")])
    /\ IF callback = "raises"
       THEN d_pc' = "exit" /\ d_exc' = "callback"
       ELSE d_pc' = "collect" /\ UNCHANGED d_exc
    /\ UNCHANGED <<d_rows, chunk_size, workers, chunks, futures, all_results,
                   d_result, completed, callback, faulty, native, use_processes,
                   writes>>
    /\ UNCHANGED <<rowVars, mrVars, streamVars, cacheVars>>

\* The with block is left by an exception: __exit__ waits for every unit
\* submitted, then the exception reaches the caller
ExecutorExit ==
    /\ d_pc = "exit"
    /\ Running = {} /\ Queued = {}
    /\ d_pc' = "raised"
    /\ UNCHANGED <<d_rows, chunk_size, workers, chunks, futures, all_results,
                   d_result, completed, callback, faulty, native, use_processes,
                   cb_calls, d_exc, writes>>
    /\ UNCHANGED <<rowVars, mrVars, streamVars, cacheVars>>

\* return self._aggregate_results(all_results)
ReturnAggregate ==
    /\ d_pc = "collect"
    /\ Len(all_results) = Len(futures)
    /\ d_result' = AggregateResults(all_results)
    /\ d_pc' = "done"
    /\ UNCHANGED <<d_rows, chunk_size, workers, chunks, futures, all_results,
                   completed, callback, faulty, native, use_processes,
                   cb_calls, d_exc, writes>>
    /\ UNCHANGED <<rowVars, mrVars, streamVars, cacheVars>>

NextDispatch == ReadChunks \/ Submit \/ StartUnit \/ FinishUnit \/ Collect
                  \/ ReturnAggregate

SpecDispatch == InitDispatch /\ [][NextDispatch]_vars

\* A dispatch with a progress callback or with units that raise.  The rows
\* are valid or carry one error.
InitCallback ==
    /\ d_pc = "start"
    /\ schema = PipelineSchema
    /\ d_rows \in SeqsUpTo({ [id |-> StrV("1"), name |-> StrV("ab")],
                             [id |-> StrV("2"), name |-> StrV("a")] }, MaxRows)
    /\ chunk_size \in 1..MaxChunk
    /\ workers \in 1..MaxWorkers
    /\ chunks = <<>> /\ futures = <<>> /\ all_results = <<>>
    /\ d_result = EmptyResult /\ completed = <<>>
    /\ callback \in {"none", "returns", "raises"}
    /\ faulty \in {{}, {0}, {1}}
    /\ cb_calls = <<>> /\ d_exc = ""
    /\ native = FALSE /\ use_processes = FALSE /\ writes = {}
    /\ IdleRow /\ IdleMapReduce /\ IdleStream /\ IdleCache

NextCallback == NextDispatch \/ InvokeCallback \/ ExecutorExit

SpecCallback == InitCallback /\ [][NextCallback]_vars

\* A dispatch under either build of the package and either executor
\* (distributed.py 77-78: ProcessPoolExecutor if self.use_processes else
\* ThreadPoolExecutor).  The caller has not compiled the schema before.
InitWorkers ==
    /\ d_pc = "start"
    /\ schema = PipelineSchema
    /\ d_rows \in SeqsUpTo({ [id |-> StrV("1"), name |-> StrV("ab")],
                             [id |-> StrV("2"), name |-> StrV("a")] }, MaxRows)
    /\ chunk_size \in 1..MaxChunk
    /\ workers \in 1..MaxWorkers
    /\ chunks = <<>> /\ futures = <<>> /\ all_results = <<>>
    /\ d_result = EmptyResult /\ completed = <<>>
    /\ callback = "none" /\ faulty = {} /\ cb_calls = <<>> /\ d_exc = ""
    /\ native \in BOOLEAN /\ use_processes \in BOOLEAN /\ writes = {}
    /\ IdleRow /\ IdleMapReduce /\ IdleStream /\ IdleCache

SpecWorkers == InitWorkers /\ [][NextDispatch]_vars

-----------------------------------------------------------------------------
(* MapReduceValidator: the caller maps chunks in the order it likes and    *)
(* reduces the list of map results it has gathered.                        *)

InitMapReduce ==
    /\ mr_pc = "map"
    /\ schema = PipelineSchema
    /\ \E ds \in SeqsUpTo(PipelineDicts, MaxMapRows), cs \in 1..MaxChunk :
          mr_chunks = ReadCsvChunks(FileRows(ds), cs)
    /\ mr_map_results = <<>>
    /\ mr_result = EmptyResult
    /\ IdleRow /\ IdleDispatch /\ IdleStream /\ IdleCache

\* map_results.append(mr.map_validate_chunk(chunk))
MapChunk ==
    /\ mr_pc = "map"
    /\ Len(mr_map_results) < Len(mr_chunks)
    /\ \E i \in 1..Len(mr_chunks) :
          mr_map_results' =
              Append(mr_map_results, MapValidateChunk(schema, mr_chunks[i]))
    /\ UNCHANGED <<mr_pc, mr_chunks, mr_result>>
    /\ UNCHANGED <<rowVars, dispVars, streamVars, cacheVars>>

\* mr.reduce_results(map_results)
Reduce ==
    /\ mr_pc = "map"
    /\ mr_result' = ReduceResults(mr_map_results)
    /\ mr_pc' = "reduced"
    /\ UNCHANGED <<mr_chunks, mr_map_results>>
    /\ UNCHANGED <<rowVars, dispVars, streamVars, cacheVars>>

NextMapReduce == MapChunk \/ Reduce

SpecMapReduce == InitMapReduce /\ [][NextMapReduce]_vars

-----------------------------------------------------------------------------
(* StreamingValidator (streaming.py)                                       *)

\* error.row_index = ... (streaming.py 106): the errors validate_dict
\* returns are str objects, and assigning an attribute of a str raises
\* AttributeError
CanSetRowIndex(e) == FALSE

\* The loop of _validate_buffer (streaming.py 99-107) over the rows from
\* index row_idx on: raised as soon as an assignment of row_index fails
RECURSIVE BufferLoop(_, _, _, _, _, _)
BufferLoop(sch, buf, rc, row_idx, total_valid, total_errors) ==
    IF row_idx >= Len(buf)
    THEN [raised |-> FALSE, valid |-> total_valid, errors |-> total_errors]
    ELSE LET row    == buf[row_idx + 1]
             errors == ValidatorValidateDict(sch, <<>>, row.data)
         IN  IF errors = <<>>
             THEN BufferLoop(sch, buf, rc, row_idx + 1, total_valid + 1, total_errors)
             ELSE IF \A k \in 1..Len(errors) : CanSetRowIndex(errors[k])
             THEN BufferLoop(sch, buf, rc, row_idx + 1, total_valid,
                             total_errors \o
                               [k \in 1..Len(errors) |->
                                  [ResultError(errors[k], row) EXCEPT
                                     !.row_index = rc - Len(buf) + row_idx]])
             ELSE [raised |-> TRUE, valid |-> total_valid, errors |-> total_errors]

\* StreamingValidator._validate_buffer
ValidateBuffer(sch, buf, rc) ==
    LET r == BufferLoop(sch, buf, rc, 0, 0, <<>>) IN
    [raised |-> r.raised,
     result |-> ValidationResult(r.valid, Len(buf) - r.valid, Len(buf), r.errors)]

\* Mutant of BufferFull: the buffer is flushed only once it is over capacity
BufferFull_Over(buf, size) == Len(buf) > size

\* if len(buffer) >= self.buffer_size (streaming.py 84, 143)
BufferFull(buf, size) == Len(buf) >= size

\* Input items: a record ("rec"), and in a JSONL file also a blank line
\* ("blank") and a line json.loads rejects ("bad")
RecItem(d)  == [kind |-> "rec", data |-> d]
BlankItem   == [kind |-> "blank", data |-> <<>>]
BadItem     == [kind |-> "bad", data |-> <<>>]
CsvItems    == {RecItem(d) : d \in PipelineDicts}
JsonlItems  == CsvItems \cup {BlankItem, BadItem}

\* Zero-based position of item k among the records of the input (history)
RecordPos(ls, k) == Cardinality({j \in 1..(k - 1) : ls[j].kind = "rec"})

InitStream ==
    /\ s_pc = "read"
    /\ schema = PipelineSchema
    /\ \/ /\ framing = "csv"
          /\ skip_header \in BOOLEAN
          /\ lines \in SeqsUpTo(CsvItems, MaxLines)
       \/ /\ framing = "jsonl"
          /\ skip_header = FALSE
          /\ lines \in SeqsUpTo(JsonlItems, MaxLines)
    /\ buffer_size \in 1..MaxBuffer
    /\ s_pos = 0 /\ buffer = <<>> /\ row_count = 0
    /\ yielded = <<>> /\ s_exc = ""
    /\ IdleRow /\ IdleDispatch /\ IdleMapReduce /\ IdleCache

\* buffer.append(row); row_count += 1; then the capacity test
BufferAppend(d) ==
    /\ buffer' = Append(buffer, Row(RecordPos(lines, s_pos + 1), d))
    /\ row_count' = row_count + 1
    /\ s_pc' = IF BufferFull(buffer', buffer_size) THEN "flush" ELSE "read"

\* One iteration of "for row in reader" (streaming.py 75-84)
CsvReadRow ==
    /\ s_pc = "read" /\ framing = "csv"
    /\ s_pos < Len(lines)
    /\ s_pos' = s_pos + 1
    /\ IF skip_header /\ row_count = 0
       THEN /\ row_count' = row_count + 1
            /\ UNCHANGED <<buffer, s_pc>>
       ELSE BufferAppend(lines[s_pos + 1].data)
    /\ UNCHANGED <<framing, skip_header, lines, buffer_size, yielded, s_exc>>
    /\ UNCHANGED <<rowVars, dispVars, mrVars, cacheVars>>

\* Mutant of JsonReadLine: a line json.loads rejects is passed over
JsonReadLine_SkipBad ==
    /\ s_pc = "read" /\ framing = "jsonl"
    /\ s_pos < Len(lines)
    /\ s_pos' = s_pos + 1
    /\ LET item == lines[s_pos + 1] IN
       IF item.kind \in {"blank", "bad"}
       THEN UNCHANGED <<buffer, row_count, s_pc, s_exc>>
       ELSE /\ BufferAppend(item.data)
            /\ UNCHANGED s_exc
    /\ UNCHANGED <<framing, skip_header, lines, buffer_size, yielded>>
    /\ UNCHANGED <<rowVars, dispVars, mrVars, cacheVars>>

\* One iteration of "for line in f" (streaming.py 134-143, 147-148)
JsonReadLine ==
    /\ s_pc = "read" /\ framing = "jsonl"
    /\ s_pos < Len(lines)
    /\ s_pos' = s_pos + 1
    /\ LET item == lines[s_pos + 1] IN
       CASE item.kind = "blank" ->
                UNCHANGED <<buffer, row_count, s_pc, s_exc>>
         [] item.kind = "bad" ->
                /\ s_pc' = "raised"
                /\ s_exc' = "ValueError"
                /\ UNCHANGED <<buffer, row_count>>
         [] OTHER ->
                /\ BufferAppend(item.data)
                /\ UNCHANGED s_exc
    /\ UNCHANGED <<framing, skip_header, lines, buffer_size, yielded>>
    /\ UNCHANGED <<rowVars, dispVars, mrVars, cacheVars>>

\* result = self._validate_buffer(buffer, row_count); buffer = []; yield result
\* (streaming.py 85-87, 144-146)
FlushWindow ==
    /\ s_pc = "flush"
    /\ LET r == ValidateBuffer(schema, buffer, row_count) IN
       IF r.raised
       THEN /\ s_pc' = "raised"
            /\ s_exc' = "AttributeError"
            /\ UNCHANGED <<buffer, yielded>>
       ELSE /\ buffer' = <<>>
            /\ yielded' = Append(yielded, r.result)
            /\ s_pc' = "read"
            /\ UNCHANGED s_exc
    /\ UNCHANGED <<framing, skip_header, lines, buffer_size, s_pos, row_count>>
    /\ UNCHANGED <<rowVars, dispVars, mrVars, cacheVars>>

\* The input is exhausted: "if buffer:" (streaming.py 89-92, 150-152)
EndOfInput ==
    /\ s_pc = "read"
    /\ s_pos = Len(lines)
    /\ s_pc' = IF buffer # <<>> THEN "tail" ELSE "end"
    /\ UNCHANGED <<framing, skip_header, lines, buffer_size, s_pos, buffer,
                   row_count, yielded, s_exc>>
    /\ UNCHANGED <<rowVars, dispVars, mrVars, cacheVars>>

\* result = self._validate_buffer(buffer, row_count); yield result
FlushTail ==
    /\ s_pc = "tail"
    /\ LET r == ValidateBuffer(schema, buffer, row_count) IN
       IF r.raised
       THEN /\ s_pc' = "raised"
            /\ s_exc' = "AttributeError"
            /\ UNCHANGED yielded
       ELSE /\ yielded' = Append(yielded, r.result)
            /\ s_pc' = "end"
            /\ UNCHANGED s_exc
    /\ UNCHANGED <<framing, skip_header, lines, buffer_size, s_pos, buffer,
                   row_count>>
    /\ UNCHANGED <<rowVars, dispVars, mrVars, cacheVars>>

NextStream == CsvReadRow \/ JsonReadLine \/ FlushWindow \/ EndOfInput \/ FlushTail

SpecStream == InitStream /\ [][NextStream]_vars

-----------------------------------------------------------------------------
(* ValidationCache and CachedValidator: sessions on one cache directory.   *)
(* A call runs alone inside its session; the steps of two sessions         *)
(* interleave at their file operations, and the clock moves at any time.   *)

\* The files the calls are given: their paths and their bytes.  copy.csv
\* is a.csv under another name, b.csv and c.csv differ from it in one byte.
Paths == {"a.csv", "copy.csv", "b.csv", "c.csv"}
FileBytes(path) ==
    CASE path \in {"a.csv", "copy.csv"} -> "id,1"
      [] path = "b.csv" -> "id,2"
      [] OTHER -> "id,3"

\* hashlib.sha256 of a byte string: distinct texts of the model have
\* distinct digests
Sha256(bytes) ==
    CASE bytes = "id,1" -> "h1"
      [] bytes = "id,2" -> "h2"
      [] OTHER -> "h3"

\* Mutant of GetFileHash: the path is hashed, not the bytes of the file
GetFileHash_OfPath(path) ==
    CASE path = "a.csv" -> "h1"
      [] path = "copy.csv" -> "h2"
      [] OTHER -> "h3"

\* _get_file_hash (caching.py 64-78): every byte of the file is read, and
\* nothing else enters the digest
GetFileHash(path) == Sha256(FileBytes(path))

\* The ValidationResult a save_result call may be given, and the size of
\* the payload written for it (it grows with the metadata argument)
CacheResults ==
    { ValidationResult(2, 1, 3, <<Err("id", "Required", "Field 'id' is required")>>),
      ValidationResult(1, 0, 1, <<>>) }

\* self.validator.validate_csv(filepath): the result is a function of the
\* bytes of the file
FreshResult(h) ==
    IF h = "h1"
    THEN ValidationResult(2, 1, 3, <<Err("id", "Required", "Field 'id' is required")>>)
    ELSE ValidationResult(1, 0, 1, <<>>)

\* The payload CachedValidator writes carries no metadata
FreshSize == 1

\* Handles on payload files that an unlink has detached from the name
OrphanHandles(ss, before, after) ==
    [t \in Sessions |->
        IF /\ ss[t].pc = "payload_open"
           /\ before[ss[t].key].kind # "absent"
           /\ after[ss[t].key].kind = "absent"
        THEN [ss[t] EXCEPT !.fd_live = FALSE]
        ELSE ss[t]]

\* The clock advances
Tick ==
    /\ now < MaxClock
    /\ now' = now + 1
    /\ UNCHANGED <<ttl, max_cache_size, manifest_file, payload_files, sess,
                   last_writer>>
    /\ UNCHANGED <<rowVars, dispVars, mrVars, streamVars>>

\* ValidationCache.__init__ (caching.py 42-49)
Construct(s) ==
    /\ sess[s].pc = "none"
    /\ LET r == LoadManifest(manifest_file) IN
       sess' = [sess EXCEPT ![s] =
                  IF r.raised
                  THEN [@ EXCEPT !.pc = "failed", !.op = "init", !.ret = RetExc]
                  ELSE [@ EXCEPT !.pc = "ready", !.op = "init",
                                 !.manifest = r.manifest]]
    /\ UNCHANGED <<now, ttl, max_cache_size, manifest_file, payload_files,
                   last_writer>>
    /\ UNCHANGED <<rowVars, dispVars, mrVars, streamVars>>

\* has_result(filepath) for a file whose hash is h
HasResult(s, h) ==
    /\ sess[s].pc = "ready"
    /\ sess' = [sess EXCEPT ![s] =
                  ReturnCall(StartCall(@, "has_result", h),
                             RetBool(IsCacheValid(@.manifest, h, now, ttl)))]
    /\ UNCHANGED <<now, ttl, max_cache_size, manifest_file, payload_files,
                   last_writer>>
    /\ UNCHANGED <<rowVars, dispVars, mrVars, streamVars>>

\* load_result(filepath)
CallLoadResult(s, h) ==
    /\ sess[s].pc = "ready"
    /\ sess' = [sess EXCEPT ![s] =
                  ReturnCall(StartCall(@, "load_result", h),
                             LoadResult(@.manifest, payload_files, h, now, ttl))]
    /\ UNCHANGED <<now, ttl, max_cache_size, manifest_file, payload_files,
                   last_writer>>
    /\ UNCHANGED <<rowVars, dispVars, mrVars, streamVars>>

\* save_result(filepath, result, metadata) up to open(cache_file, 'w')
\* (caching.py 114-131)
SaveOpenPayload(s, h, r, n) ==
    /\ sess[s].pc = "ready"
    /\ payload_files' = [payload_files EXCEPT ![h] = Truncate(@, NoPayload)]
    /\ sess' = [sess EXCEPT ![s] =
                  [StartCall(@, "save_result", h) EXCEPT
                     !.pc = "payload_open", !.result = r, !.size = n,
                     !.fd_live = TRUE]]
    /\ UNCHANGED <<now, ttl, max_cache_size, manifest_file, last_writer>>
    /\ UNCHANGED <<rowVars, dispVars, mrVars, streamVars>>

\* json.dump(cache_data, f), and the manifest entry (caching.py 132-139)
WritePayload(s) ==
    /\ sess[s].pc = "payload_open"
    /\ payload_files' =
          IF sess[s].fd_live
          THEN [payload_files EXCEPT ![sess[s].key] =
                  WriteFile(@, CacheData(sess[s].result), sess[s].size, NoPayload)]
          ELSE payload_files
    /\ sess' = [sess EXCEPT ![s] =
                  [@ EXCEPT !.manifest = SetEntry(@, sess[s].key, now),
                            !.pc = "manifest_save", !.after = "cleanup",
                            !.fd_live = FALSE, !.at = now]]
    /\ UNCHANGED <<now, ttl, max_cache_size, manifest_file, last_writer>>
    /\ UNCHANGED <<rowVars, dispVars, mrVars, streamVars>>

\* _save_manifest: open(self.manifest_path, 'w') (caching.py 61)
OpenManifest(s) ==
    /\ sess[s].pc = "manifest_save"
    /\ manifest_file' = Truncate(manifest_file, NoManifest)
    /\ sess' = [sess EXCEPT ![s].pc = "manifest_open"]
    /\ UNCHANGED <<now, ttl, max_cache_size, payload_files, last_writer>>
    /\ UNCHANGED <<rowVars, dispVars, mrVars, streamVars>>

\* _save_manifest: json.dump(self.manifest, f) (caching.py 62); the call
\* goes on to _cleanup_cache or returns
WriteManifest(s) ==
    /\ sess[s].pc = "manifest_open"
    /\ manifest_file' = WriteFile(manifest_file, sess[s].manifest,
                                  Len(sess[s].manifest), NoManifest)
    /\ last_writer' = s
    /\ sess' = [sess EXCEPT ![s] =
                  IF @.after = "cleanup"
                  THEN [@ EXCEPT !.pc = "cleanup"]
                  ELSE ReturnCall(@, IF @.op = "validate_csv"
                                     THEN RetResult(@.result)
                                     ELSE RetNone)]
    /\ UNCHANGED <<now, ttl, max_cache_size, payload_files>>
    /\ UNCHANGED <<rowVars, dispVars, mrVars, streamVars>>

\* _cleanup_cache up to its _save_manifest (caching.py 203-242)
Cleanup(s) ==
    /\ sess[s].pc = "cleanup"
    /\ LET c == CleanupCache(sess[s].manifest, payload_files, now, ttl,
                             max_cache_size) IN
       /\ payload_files' = c.files
       /\ sess' = [OrphanHandles(sess, payload_files, c.files) EXCEPT ![s] =
                     [@ EXCEPT !.manifest = c.manifest, !.evicted = c.evicted,
                               !.pc = "manifest_save", !.after = "return"]]
    /\ UNCHANGED <<now, ttl, max_cache_size, manifest_file, last_writer>>
    /\ UNCHANGED <<rowVars, dispVars, mrVars, streamVars>>

\* Mutant of Invalidate: the payload file is left in the directory
Invalidate_KeepsPayload(s, h) ==
    /\ sess[s].pc = "ready"
    /\ IF InManifest(sess[s].manifest, h)
       THEN sess' = [sess EXCEPT ![s] =
                       [StartCall(@, "invalidate", h) EXCEPT
                          !.manifest = DelEntry(@, h),
                          !.pc = "manifest_save", !.after = "return"]]
       ELSE sess' = [sess EXCEPT ![s] =
                       ReturnCall(StartCall(@, "invalidate", h), RetNone)]
    /\ UNCHANGED <<now, ttl, max_cache_size, manifest_file, payload_files,
                   last_writer>>
    /\ UNCHANGED <<rowVars, dispVars, mrVars, streamVars>>

\* invalidate(filepath) up to its _save_manifest (caching.py 182-190)
Invalidate(s, h) ==
    /\ sess[s].pc = "ready"
    /\ IF InManifest(sess[s].manifest, h)
       THEN /\ payload_files' = Unlink(payload_files, {h})
            /\ sess' = [OrphanHandles(sess, payload_files, payload_files')
                          EXCEPT ![s] =
                          [StartCall(@, "invalidate", h) EXCEPT
                             !.manifest = DelEntry(@, h),
                             !.pc = "manifest_save", !.after = "return"]]
       ELSE /\ sess' = [sess EXCEPT ![s] =
                          ReturnCall(StartCall(@, "invalidate", h), RetNone)]
            /\ UNCHANGED payload_files
    /\ UNCHANGED <<now, ttl, max_cache_size, manifest_file, last_writer>>
    /\ UNCHANGED <<rowVars, dispVars, mrVars, streamVars>>

\* clear_all() up to its _save_manifest (caching.py 194-199)
ClearAll(s) ==
    /\ sess[s].pc = "ready"
    /\ payload_files' = Unlink(payload_files, Hashes)
    /\ sess' = [OrphanHandles(sess, payload_files, payload_files') EXCEPT ![s] =
                  [StartCall(@, "clear_all", "") EXCEPT
                     !.manifest = NoManifest,
                     !.pc = "manifest_save", !.after = "return"]]
    /\ UNCHANGED <<now, ttl, max_cache_size, manifest_file, last_writer>>
    /\ UNCHANGED <<rowVars, dispVars, mrVars, streamVars>>

\* Mutant of ValidateCsvHas: the cache is not consulted
ValidateCsvHas_AlwaysValidate(s, h) ==
    /\ sess[s].pc = "ready"
    /\ ttl = MaxTtl /\ max_cache_size = MaxBudget
    /\ sess' = [sess EXCEPT ![s] =
                  [StartCall(@, "validate_csv", h) EXCEPT
                     !.pc = "vc_validate",
                     !.prev = IF sess[s].op = "validate_csv" /\ sess[s].key = h
                              THEN [ret |-> sess[s].ret, at |-> sess[s].at]
                              ELSE [ret |-> RetNone, at |-> 0]]]
    /\ UNCHANGED <<now, ttl, max_cache_size, manifest_file, payload_files,
                   last_writer>>
    /\ UNCHANGED <<rowVars, dispVars, mrVars, streamVars>>

\* CachedValidator.validate_csv(filepath, use_cache=True): the has_result
\* test (caching.py 303).  A CachedValidator builds its cache with the
\* default ttl and size budget (caching.py 289), the largest of the model.
ValidateCsvHas(s, h) ==
    /\ sess[s].pc = "ready"
    /\ ttl = MaxTtl /\ max_cache_size = MaxBudget
    /\ sess' = [sess EXCEPT ![s] =
                  [StartCall(@, "validate_csv", h) EXCEPT
                     !.pc = IF IsCacheValid(sess[s].manifest, h, now, ttl)
                            THEN "vc_load" ELSE "vc_validate",
                     !.prev = IF sess[s].op = "validate_csv" /\ sess[s].key = h
                              THEN [ret |-> sess[s].ret, at |-> sess[s].at]
                              ELSE [ret |-> RetNone, at |-> 0]]]
    /\ UNCHANGED <<now, ttl, max_cache_size, manifest_file, payload_files,
                   last_writer>>
    /\ UNCHANGED <<rowVars, dispVars, mrVars, streamVars>>

\* return self.cache.load_result(filepath) (caching.py 304)
ValidateCsvLoad(s) ==
    /\ sess[s].pc = "vc_load"
    /\ sess' = [sess EXCEPT ![s] =
                  ReturnCall([@ EXCEPT !.at = EntryOf(sess[s].manifest,
                                                      sess[s].key).created_at],
                             LoadResult(@.manifest, payload_files, @.key,
                                        now, ttl))]
    /\ UNCHANGED <<now, ttl, max_cache_size, manifest_file, payload_files,
                   last_writer>>
    /\ UNCHANGED <<rowVars, dispVars, mrVars, streamVars>>

\* result = self.validator.validate_csv(filepath), then save_result up to
\* open(cache_file, 'w') (caching.py 307-311)
ValidateCsvFresh(s) ==
    /\ sess[s].pc = "vc_validate"
    /\ payload_files' = [payload_files EXCEPT ![sess[s].key] = Truncate(@, NoPayload)]
    /\ sess' = [sess EXCEPT ![s] =
                  [@ EXCEPT !.pc = "payload_open",
                            !.result = FreshResult(sess[s].key), !.size = FreshSize,
                            !.fd_live = TRUE, !.validated = TRUE]]
    /\ UNCHANGED <<now, ttl, max_cache_size, manifest_file, last_writer>>
    /\ UNCHANGED <<rowVars, dispVars, mrVars, streamVars>>

SessionStep(s) ==
    \/ Construct(s)
    \/ \E p \in Paths : HasResult(s, GetFileHash(p))
                           \/ CallLoadResult(s, GetFileHash(p))
    \/ \E p \in Paths, r \in CacheResults, n \in {FreshSize, MaxPayload} :
          SaveOpenPayload(s, GetFileHash(p), r, n)
    \/ WritePayload(s) \/ OpenManifest(s) \/ WriteManifest(s) \/ Cleanup(s)
    \/ \E p \in Paths : Invalidate(s, GetFileHash(p))
    \/ ClearAll(s)
    \/ \E p \in Paths : ValidateCsvHas(s, GetFileHash(p))
    \/ ValidateCsvLoad(s) \/ ValidateCsvFresh(s)

NextCache == Tick \/ \E s \in Sessions : SessionStep(s)

\* One session on an empty cache directory.  A ttl and a budget of 0 are
\* the smallest configuration; the payload of a save_result is one without
\* metadata or a large one.
InitCache ==
    /\ now = 0
    /\ ttl \in {0, MaxTtl}
    /\ max_cache_size \in {0, MaxBudget - 1, MaxBudget}
    /\ manifest_file = AbsentFile(NoManifest)
    /\ payload_files = [h \in Hashes |-> AbsentFile(NoPayload)]
    /\ sess = [s \in Sessions |-> NewSession(IF s = 1 THEN "none" ELSE "off")]
    /\ last_writer = 0
    /\ schema = <<>>
    /\ IdleRow /\ IdleDispatch /\ IdleMapReduce /\ IdleStream

SpecCache == InitCache /\ [][NextCache]_vars

\* The calls of two sessions that share the directory: the inputs are two
\* files, and every save_result stores the result of validating its file
SharedHashes == {"h1", "h2"}

SharedStep(s) ==
    \/ Construct(s)
    \/ \E h \in SharedHashes : HasResult(s, h) \/ CallLoadResult(s, h)
    \/ \E h \in SharedHashes : SaveOpenPayload(s, h, FreshResult(h), FreshSize)
    \/ WritePayload(s) \/ OpenManifest(s) \/ WriteManifest(s) \/ Cleanup(s)
    \/ \E h \in SharedHashes : Invalidate(s, h)
    \/ ClearAll(s)
    \/ \E h \in SharedHashes : ValidateCsvHas(s, h)
    \/ ValidateCsvLoad(s) \/ ValidateCsvFresh(s)

NextCacheShared == \E s \in Sessions : SharedStep(s)

\* Two sessions on one cache directory, empty at first
InitCacheShared ==
    /\ now = 0
    /\ ttl = MaxTtl
    /\ max_cache_size = MaxBudget
    /\ manifest_file = AbsentFile(NoManifest)
    /\ payload_files = [h \in Hashes |-> AbsentFile(NoPayload)]
    /\ sess = [s \in Sessions |-> NewSession("none")]
    /\ last_writer = 0
    /\ schema = <<>>
    /\ IdleRow /\ IdleDispatch /\ IdleMapReduce /\ IdleStream

SpecCacheShared == InitCacheShared /\ [][NextCacheShared]_vars

-----------------------------------------------------------------------------
(* The pipeline as a whole: one of its components runs                     *)

InitPipeline == InitDispatch \/ InitMapReduce \/ InitStream

NextPipeline == NextDispatch \/ NextMapReduce \/ NextStream

SpecPipeline == InitPipeline /\ [][NextPipeline]_vars

-----------------------------------------------------------------------------
(* Properties of row validation                                            *)

\* The errors of a list that belong to field f, in order
ErrorsOfField(es, f) == SelectSeq(es, LAMBDA e : e.field = f)

\* Field j of the schema is required and its key is missing from data
MissingRequired(j) ==
    /\ schema[j].def.required
    /\ schema[j].name \notin DOMAIN data

\* Field j of the schema has a value that fails the type check
PresentMistyped(j) ==
    /\ DictGet(data, schema[j].name).kind # "none"
    /\ TypeMismatch(schema[j].def, DictGet(data, schema[j].name))

\* C8: a required field that is missing from the record yields exactly one
\* error for that field, the Required error, and no type, range, length,
\* pattern, choice or custom error for it.
C8_RequiredShortCircuits ==
    row_pc = "returned" =>
        \A j \in 1..Len(schema) :
            MissingRequired(j) =>
                LET es == ErrorsOfField(row_errors, schema[j].name) IN
                Len(es) = 1 /\ es[1].rule = "Required"

\* C8 witness: a validated record misses a required field that also has
\* constraints a value could fail
C8_Witness ==
    /\ row_pc = "returned"
    /\ \E j \in 1..Len(schema) :
          /\ MissingRequired(j)
          /\ ~IsNone(schema[j].def.min)
          /\ ~IsNone(schema[j].def.choices)
          /\ ~IsNone(schema[j].def.custom_validator)
          /\ Len(ErrorsOfField(row_errors, schema[j].name)) = 1

\* C9: with schema {id: string required, age: integer min=18 max=120},
\* {id:"1", age:15} gives the one error "must be >= 18" of age, {age:200}
\* gives the Required error of id and then "must be <= 120" of age, and
\* {id:"2", age:30} gives no error.
C9_Scenario ==
    (row_pc = "returned" /\ schema = C9Schema /\ rules = <<>>) =>
        /\ data = [id |-> StrV("1"), age |-> IntV(15)] =>
             row_errors = <<Err("age", "Range", "Field 'age' must be >= 18")>>
        /\ data = [age |-> IntV(200)] =>
             row_errors = <<Err("id", "Required", "Field 'id' is required"),
                            Err("age", "Range", "Field 'age' must be <= 120")>>
        /\ data = [id |-> StrV("2"), age |-> IntV(30)] =>
             row_errors = <<>>

\* C9 witness: the record {age: 200} has been validated against the schema
C9_Witness ==
    /\ row_pc = "returned" /\ schema = C9Schema /\ rules = <<>>
    /\ data = [age |-> IntV(200)]
    /\ Len(row_errors) = 2

\* C10: when a present value fails the type check, the Choice check and the
\* custom predicate of the field are still evaluated and their failures
\* reported after the type error, while Range, Length and Pattern are skipped.
C10_TypeIndependentChecksStillRun ==
    row_pc = "returned" =>
        \A j \in 1..Len(schema) :
            PresentMistyped(j) =>
                LET name  == schema[j].name
                    fd    == schema[j].def
                    value == DictGet(data, name)
                    es    == ErrorsOfField(row_errors, name)
                IN  /\ Len(es) >= 1 /\ es[1].rule = "TypeCheck"
                    /\ Tail(es) = ChoiceErrors(name, fd, value)
                                    \o CustomErrors(name, fd, value)


\* Field j of the schema has a value that passes the type check
PresentWellTyped(j) ==
    /\ DictGet(data, schema[j].name).kind # "none"
    /\ ~TypeMismatch(schema[j].def, DictGet(data, schema[j].name))

\* The constraints of a field in the order their checks come
ConstraintOrder == <<"min", "max", "min_length", "max_length", "pattern", "choices">>

\* The value violates constraint c of the field: a bound of the numeric
\* range on a number, a bound of the length or the pattern on a string, the
\* list of choices on any value
ConstraintViolated(c, fd, value) ==
    CASE c = "min" -> ~IsNone(fd.min) /\ IsNumber(value) /\ value.n < Get(fd.min)
      [] c = "max" -> ~IsNone(fd.max) /\ IsNumber(value) /\ value.n > Get(fd.max)
      [] c = "min_length" ->
            ~IsNone(fd.min_length) /\ value.kind = "str"
              /\ Len(value.s) < Get(fd.min_length)
      [] c = "max_length" ->
            ~IsNone(fd.max_length) /\ value.kind = "str"
              /\ Len(value.s) > Get(fd.max_length)
      [] c = "pattern" ->
            ~IsNone(fd.pattern) /\ value.kind = "str"
              /\ ~PatternMatch(Get(fd.pattern), value.s)
      [] c = "choices" ->
            ~IsNone(fd.choices)
              /\ \A i \in 1..Len(Get(fd.choices)) : ~PyEq(Get(fd.choices)[i], value)
      [] OTHER -> FALSE

RuleOfConstraint(c) ==
    CASE c \in {"min", "max"}               -> "Range"
      [] c \in {"min_length", "max_length"} -> "Length"
      [] c = "pattern"                      -> "Pattern"
      [] OTHER                              -> "Choice"

\* The errors of field j other than the one of its custom predicate
ConstraintErrors(j) ==
    SelectSeq(ErrorsOfField(row_errors, schema[j].name),
              LAMBDA e : e.rule # "Custom")

\* C11: for a present value that passes the type check, the Range, Length,
\* Pattern and Choice checks each run: the field has one error per violated
\* constraint, in the order min, max, min_length, max_length, pattern,
\* choices, with no stop after the first failure.
C11_EveryFailureReported ==
    row_pc = "returned" =>
        \A j \in 1..Len(schema) :
            PresentWellTyped(j) =>
                LET fd    == schema[j].def
                    value == DictGet(data, schema[j].name)
                    viol  == SelectSeq(ConstraintOrder,
                                       LAMBDA c : ConstraintViolated(c, fd, value))
                    es    == ConstraintErrors(j)
                IN  /\ Len(es) = Len(viol)
                    /\ \A k \in 1..Len(es) : es[k].rule = RuleOfConstraint(viol[k])

\* C11 witness: a validated value broke its length, pattern and choice
\* constraints at once and got the three errors
C11_Witness ==
    /\ row_pc = "returned"
    /\ \E j \in 1..Len(schema) :
          /\ PresentWellTyped(j)
          /\ LET es == ConstraintErrors(j) IN
             /\ Len(es) = 3
             /\ es[1].rule = "Length" /\ es[2].rule = "Pattern"
             /\ es[3].rule = "Choice"

EndsWith(t, suffix) ==
    Len(t) >= Len(suffix) /\ SubSeq(t, Len(t) - Len(suffix) + 1, Len(t)) = suffix

\* The rules of the validator whose call fails the row, in order
FailingRules ==
    SelectSeq(rules, LAMBDA r : RuleFuncCall(r).out \in {"false", "raise"})

\* C12: a custom predicate that raises does not make validate_dict raise; it
\* yields exactly one error, which carries the failure message of the
\* predicate (any message if the predicate gave none), and the other fields
\* and rules of the row are still evaluated.
C12_RaisingPredicateReported ==
    row_pc = "returned" =>
        /\ \A j \in 1..Len(schema) :
              LET fd    == schema[j].def
                  value == DictGet(data, schema[j].name)
                  es    == SelectSeq(ErrorsOfField(row_errors, schema[j].name),
                                     LAMBDA e : e.rule = "Custom")
              IN  (/\ PresentWellTyped(j)
                   /\ ~IsNone(fd.custom_validator)
                   /\ CustomCall(Get(fd.custom_validator), value).out = "raise")
                  => /\ Len(es) = 1
                     /\ \/ EndsWith(es[1].message,
                                    CustomCall(Get(fd.custom_validator), value).exc)
                        \/ (~IsNone(fd.error_message)
                            /\ es[1].message = Get(fd.error_message))
        /\ LET es == ErrorsOfField(row_errors, "*") IN
           /\ Len(es) = Len(FailingRules)
           /\ \A k \in 1..Len(es) :
                 RuleFuncCall(FailingRules[k]).out = "raise"
                   => EndsWith(es[k].message, RuleFuncCall(FailingRules[k]).exc)

\* The rule kinds in the order of emission
KindOrder ==
    <<"Required", "TypeCheck", "Range", "Length", "Pattern", "Choice", "Custom">>

\* The constraint a rule kind stands for is set on the field
KindSet(k, fd) ==
    CASE k = "Required"  -> fd.required
      [] k = "TypeCheck" -> TRUE
      [] k = "Range"     -> ~IsNone(fd.min) \/ ~IsNone(fd.max)
      [] k = "Length"    -> ~IsNone(fd.min_length) \/ ~IsNone(fd.max_length)
      [] k = "Pattern"   -> ~IsNone(fd.pattern)
      [] k = "Choice"    -> ~IsNone(fd.choices)
      [] k = "Custom"    -> ~IsNone(fd.custom_validator)
      [] OTHER           -> FALSE

\* <<field, kind>> of the rules a schema is to compile to
RECURSIVE ExpectedRules(_)
ExpectedRules(sch) ==
    IF sch = <<>> THEN <<>>
    ELSE LET ks == SelectSeq(KindOrder, LAMBDA k : KindSet(k, sch[1].def)) IN
         [i \in 1..Len(ks) |-> <<sch[1].name, ks[i]>>] \o ExpectedRules(Tail(sch))

\* <<field, kind>> of the rules of fields in a compiled list
FieldRulesOf(out) ==
    LET fr == SelectSeq(out, LAMBDA r : r.field # "*") IN
    [i \in 1..Len(fr) |-> <<fr[i].field, fr[i].rule_type>>]

\* C13: a compiled schema has, field by field in insertion order, the rules
\* Required, TypeCheck, Range, Length, Pattern, Choice, Custom in that
\* order: TypeCheck always, each other kind exactly when its constraint is set.
C13_CompileEmitsEveryConstraint ==
    ~IsNone(compile_ret) => FieldRulesOf(Get(compile_ret)) = ExpectedRules(schema)

\* C14: with an empty schema and no custom rules, a record of any fields and
\* values gets no error, and it counts as a valid row of its dataset.
C14_EmptySchemaAcceptsAll ==
    (row_pc = "returned" /\ schema = <<>> /\ rules = <<>>) =>
        /\ row_errors = <<>>
        /\ LET r == ValidateChunk(schema, FileRows(<<data, data>>), 0) IN
           r.valid_count = 2 /\ r.invalid_count = 0 /\ r.errors = <<>>

\* C14 witness: a record of several fields, one of them None, was validated
\* against the empty schema
C14_Witness ==
    /\ row_pc = "returned" /\ schema = <<>> /\ rules = <<>>
    /\ Cardinality(DOMAIN data) >= 2
    /\ \E k \in DOMAIN data : data[k] = NoneValue
    /\ \E k \in DOMAIN data : data[k].kind = "str"
    /\ row_errors = <<>>

\* The errors of field j that its check r ("Range", "Length", ...) produced
ErrorsOfRule(j, r) ==
    SelectSeq(ErrorsOfField(row_errors, schema[j].name), LAMBDA e : e.rule = r)

\* The bounds lo and hi (None or Some) and a measure n of the value: n is
\* inside the bounds, or one outside of a bound
Inside(lo, hi, n) ==
    (IsNone(lo) \/ n >= Get(lo)) /\ (IsNone(hi) \/ n <= Get(hi))
OneOutside(lo, hi, n) ==
    \/ ~IsNone(lo) /\ n = Get(lo) - 1
    \/ ~IsNone(hi) /\ n = Get(hi) + 1
Ordered(lo, hi) == IsNone(lo) \/ IsNone(hi) \/ Get(lo) <= Get(hi)

\* The errors r of a bounded measure n: none inside the bounds, exactly one
\* just outside, never two with ordered bounds
InclusiveBounds(lo, hi, n, r) ==
    /\ Inside(lo, hi, n) => r = <<>>
    /\ (OneOutside(lo, hi, n) /\ Ordered(lo, hi)) => Len(r) = 1
    /\ Ordered(lo, hi) => Len(r) <= 1

\* The field has no constraint besides its type and the bounds
OnlyBounds(fd) ==
    /\ IsNone(fd.pattern) /\ IsNone(fd.choices) /\ IsNone(fd.custom_validator)

\* C28: min, max, min_length and max_length are inclusive: a number equal
\* to min or max, or a string as long as min_length or max_length, gets no
\* error from the bound; one below min or one above max gets exactly one
\* error (the only error of the field when it has no other constraint); and
\* no value gets both the below and the above error when min <= max.
C28_BoundsInclusive ==
    row_pc = "returned" =>
        \A j \in 1..Len(schema) :
            PresentWellTyped(j) =>
                LET fd    == schema[j].def
                    value == DictGet(data, schema[j].name)
                    all   == ErrorsOfField(row_errors, schema[j].name)
                IN  /\ IsNumber(value) =>
                       /\ InclusiveBounds(fd.min, fd.max, value.n,
                                          ErrorsOfRule(j, "Range"))
                       /\ (OnlyBounds(fd) /\ OneOutside(fd.min, fd.max, value.n))
                             => Len(all) = 1
                    /\ value.kind = "str" =>
                       /\ InclusiveBounds(fd.min_length, fd.max_length,
                                          Len(value.s), ErrorsOfRule(j, "Length"))
                       /\ (OnlyBounds(fd)
                             /\ OneOutside(fd.min_length, fd.max_length, Len(value.s)))
                             => Len(all) = 1

\* C28 witness: a number equal to the max of a field with both bounds was
\* validated without error
C28_Witness ==
    /\ row_pc = "returned" /\ Len(schema) = 1
    /\ PresentWellTyped(1)
    /\ ~IsNone(schema[1].def.min) /\ ~IsNone(schema[1].def.max)
    /\ DictGet(data, schema[1].name).kind = "int"
    /\ DictGet(data, schema[1].name).n = Get(schema[1].def.max)
    /\ row_errors = <<>>

\* The value of field j is the empty string or zero
EmptyOrZero(j) ==
    LET value == DictGet(data, schema[j].name) IN
    \/ value.kind = "str" /\ value.s = ""
    \/ value.kind = "int" /\ value.n = 0

\* C29: a required field whose value is "" or 0 gets no Required error and
\* its type, range, length and pattern checks are applied as for a field
\* that is not required; a required field whose key is absent gets the
\* Required error and nothing else.
C29_MissingIsNotEmpty ==
    row_pc = "returned" =>
        \A j \in 1..Len(schema) :
            LET fd    == schema[j].def
                name  == schema[j].name
                value == DictGet(data, name)
                es    == ErrorsOfField(row_errors, name)
            IN  fd.required =>
                  /\ EmptyOrZero(j) =>
                        /\ ErrorsOfRule(j, "Required") = <<>>
                        /\ es = FieldErrors(name, [fd EXCEPT !.required = FALSE], data)
                        /\ Len(ErrorsOfRule(j, "TypeCheck")) =
                              (IF TypeMismatch(fd, value) THEN 1 ELSE 0)
                        /\ ~TypeMismatch(fd, value) =>
                              \A c \in {"min", "max", "min_length", "max_length",
                                        "pattern"} :
                                  ConstraintViolated(c, fd, value) =>
                                      ErrorsOfRule(j, RuleOfConstraint(c)) # <<>>
                  /\ name \notin DOMAIN data =>
                        /\ Len(es) = 1
                        /\ es[1].rule = "Required"

\* C29 witness: a required number field with a minimum was given 0 and got
\* the Range error, not the Required one
C29_Witness ==
    /\ row_pc = "returned" /\ Len(schema) = 1
    /\ schema[1].def.required
    /\ DictGet(data, schema[1].name) = IntV(0)
    /\ ~IsNone(schema[1].def.min)
    /\ Len(row_errors) = 1
    /\ row_errors[1].rule = "Range"

\* The records that agree with d on the fields the schema names: the
\* schema fields of d, with any fields outside the schema added
SchemaNames(sch) == {sch[j].name : j \in 1..Len(sch)}
AgreeingRecords(sch, d) ==
    { [k \in (DOMAIN d \cap SchemaNames(sch)) \cup DOMAIN e |->
          IF k \in DOMAIN e THEN e[k] ELSE d[k]] :
        e \in DictsOver(NameSet(MaxFields) \ SchemaNames(sch), SmallValues) }

\* Some key of the record is not a field of the schema
HasExtraField(sch, d) ==
    \E k \in DOMAIN d : \A j \in 1..Len(sch) : sch[j].name # k

\* C27: fields the schema does not name never influence schema validation:
\* every record that agrees with the validated one on the schema fields
\* gets the same error list from Schema.validate_dict, and from
\* Validator.validate_dict when no row-level rule is installed; so a valid
\* record stays valid with extra fields added.
C27_ExtraFieldsIgnored ==
    row_pc = "returned" =>
        \A d2 \in AgreeingRecords(schema, data) :
            /\ SchemaValidateDict(schema, d2) = SchemaValidateDict(schema, data)
            /\ rules = <<>> =>
                  ValidatorValidateDict(schema, rules, d2) = row_errors

\* C27 witness: a record with a field outside the schema, a None among its
\* values, was validated against a one-field schema and found valid
C27_Witness ==
    /\ row_pc = "returned" /\ rules = <<>>
    /\ Len(schema) = 1
    /\ HasExtraField(schema, data)
    /\ \E k \in DOMAIN data : data[k] = NoneValue
    /\ schema[1].name \in DOMAIN data
    /\ row_errors = <<>>

-----------------------------------------------------------------------------
(* Properties of the chunk dispatcher and the aggregator                   *)

\* The chunks of a file validated one after another, in order, and aggregated
SequentialValidate(sch, rows, cs) ==
    LET cks == ReadCsvChunks(rows, cs) IN
    AggregateResults([i \in 1..Len(cks) |-> ValidateChunk(sch, cks[i], i - 1)])

\* Position of chunk number c in the completion order
FinishedAt(c) == CHOOSE k \in 1..Len(completed) : completed[k] = c

\* Some unit finished before a unit submitted earlier
OutOfOrderCompletion ==
    \E i, j \in 1..Len(futures) :
        /\ i < j
        /\ futures[i].state = "done" /\ futures[j].state = "done"
        /\ FinishedAt(j - 1) < FinishedAt(i - 1)
        /\ futures[i].result.errors # <<>>
        /\ futures[j].result.errors # <<>>

\* C1: the result validate_csv_parallel returns equals, in counts and in
\* the error sequence, the result of validating the chunks one after another
\* in order and aggregating them, and it is that same result for every
\* chunk_size.
C1_ParallelEqualsSequential ==
    d_pc = "done" =>
        \A cs \in 1..MaxChunk :
            d_result = SequentialValidate(schema, FileRows(d_rows), cs)

\* C1 witness: a dispatch of several chunks over several workers returned,
\* with units that finished out of submission order and a partial last chunk
C1_Witness ==
    /\ d_pc = "done"
    /\ workers >= 2
    /\ OutOfOrderCompletion
    /\ Len(chunks) >= 2
    /\ Len(chunks[Len(chunks)]) < chunk_size
    /\ d_result.valid_count >= 1

\* C2: the errors of the aggregated result are in ascending row order,
\* whatever order the units completed in.
C2_ErrorsInRowOrder ==
    d_pc = "done" =>
        \A a, b \in 1..Len(d_result.errors) :
            a < b => d_result.errors[a].origin <= d_result.errors[b].origin

\* C2 witness: a later chunk with errors finished before an earlier chunk
\* with errors, and the result was returned
C2_Witness ==
    /\ d_pc = "done"
    /\ OutOfOrderCompletion
    /\ Len(d_result.errors) >= 3

Consistent(r)    == r.valid_count + r.invalid_count = r.total_rows
ConsistentMap(r) == r.valid + r.invalid = r.total

\* C3: valid_count + invalid_count = total_rows in every result produced:
\* results of units, gathered results, the aggregate, map results, the
\* reduced result and the windows a stream yields.
C3_CountsAddUp ==
    /\ \A i \in 1..Len(futures) :
          futures[i].state = "done" => Consistent(futures[i].result)
    /\ \A i \in 1..Len(all_results) : Consistent(all_results[i])
    /\ d_pc = "done" => Consistent(d_result)
    /\ \A i \in 1..Len(mr_map_results) : ConsistentMap(mr_map_results[i])
    /\ mr_pc = "reduced" => Consistent(mr_result)
    /\ \A w \in 1..Len(yielded) : Consistent(yielded[w])

\* C3 witness: an aggregate of several unit results with valid rows, invalid
\* rows and a row with more than one error
C3_Witness ==
    /\ d_pc = "done"
    /\ Len(all_results) >= 2
    /\ d_result.valid_count >= 1
    /\ d_result.invalid_count >= 1
    /\ Len(d_result.errors) > d_result.invalid_count

\* C4: every error of the aggregated result carries the absolute zero-based
\* row index of its record (offset of its unit plus position in the unit).
C4_ErrorsCarryAbsoluteRowIndex ==
    d_pc = "done" =>
        \A k \in 1..Len(d_result.errors) :
            d_result.errors[k].row_index = d_result.errors[k].origin

\* C23: the progress callback is invoked for the units in the order in which
\* they complete, and while a callback runs the units still running go on.
C23_CallbackInCompletionOrder ==
    /\ \A k \in 1..Len(cb_calls) : cb_calls[k].chunk = completed[k] + 1
    /\ (d_pc = "callback" /\ Running # {}) => ENABLED FinishUnit

\* C24: an exception raised by the progress callback does not abort the
\* call: every unit is processed and the aggregated result is returned.
C24_CallbackExceptionContained ==
    (callback = "raises" /\ faulty = {}) =>
        /\ d_exc = ""
        /\ d_pc \notin {"exit", "raised"}

\* Some unit raised out of _validate_chunk
UnitFailed == \E i \in 1..Len(futures) : futures[i].state = "failed"

\* C25: once a unit has failed, validate_csv_parallel returns no result: the
\* call is not stuck before the failure has reached the caller, it never
\* returns an aggregate, and the results of the units that completed are
\* not handed out.
C25_UnitFailurePropagates ==
    UnitFailed =>
        /\ d_pc # "done"
        /\ d_result = EmptyResult
        /\ d_pc # "raised" => ENABLED NextCallback
        /\ d_pc = "raised" => d_exc \in {"unit", "callback"}
        /\ (d_pc = "raised" /\ callback # "raises") => d_exc = "unit"

\* C25 witness: the failure of the second unit reached the caller after the
\* result of the first had been collected and a later unit had completed
C25_Witness ==
    /\ d_pc = "raised" /\ d_exc = "unit"
    /\ Len(all_results) >= 1
    /\ all_results[1].total_rows >= 1
    /\ \E i \in 1..Len(futures) :
          i > Len(all_results) + 1 /\ futures[i].state = "done"

SameCounts(a, b) ==
    /\ a.valid_count = b.valid_count
    /\ a.invalid_count = b.invalid_count
    /\ a.total_rows = b.total_rows

\* The permutations of 1..n, and a list rearranged by one
Perms(n) == {f \in [1..n -> 1..n] : \A i, j \in 1..n : f[i] = f[j] => i = j}
Permuted(rs, f) == [i \in 1..Len(rs) |-> rs[f[i]]]

\* A map result as the ValidationResult a unit would return for it
AsResult(m) == ValidationResult(m.valid, m.invalid, m.total, m.errors)
AsResults(ms) == [i \in 1..Len(ms) |-> AsResult(ms[i])]

\* C26: reduce_results and _aggregate_results give the same valid_count,
\* invalid_count and total_rows for every permutation of the list of parts,
\* and aggregating the aggregates of two groups gives the counts of
\* aggregating all parts at once.
C26_CountsOrderAndGroupingFree ==
    mr_pc = "reduced" =>
        /\ \A f \in Perms(Len(mr_map_results)) :
              /\ SameCounts(ReduceResults(Permuted(mr_map_results, f)), mr_result)
              /\ SameCounts(AggregateResults(Permuted(AsResults(mr_map_results), f)),
                            mr_result)
        /\ \A k \in 0..Len(mr_map_results) :
              LET head == SubSeq(mr_map_results, 1, k)
                  rest == SubSeq(mr_map_results, k + 1, Len(mr_map_results))
              IN  /\ SameCounts(AggregateResults(<<ReduceResults(head),
                                                   ReduceResults(rest)>>),
                                mr_result)
                  /\ SameCounts(AggregateResults(
                                   <<AggregateResults(AsResults(head)),
                                     AggregateResults(AsResults(rest))>>),
                                mr_result)

\* C26 witness: parts that differ in every count were reduced
C26_Witness ==
    /\ mr_pc = "reduced"
    /\ Len(mr_map_results) >= 2
    /\ mr_map_results[1].valid # mr_map_results[2].valid
    /\ mr_map_results[1].invalid # mr_map_results[2].invalid
    /\ mr_map_results[1].total # mr_map_results[2].total
    /\ mr_result.invalid_count >= 1

\* C31: the progress callback is invoked once per work unit: the i-th
\* invocation reports chunk = i, total_chunks = the number of units, and
\* running totals that are the sums over the first i units, so the totals
\* never decrease; a call that returns has made one invocation per unit and
\* the last one's totals are the counts of the returned result.
C31_CallbackOncePerUnit ==
    /\ Len(cb_calls) <= Len(all_results)
    /\ \A i \in 1..Len(cb_calls) :
          /\ cb_calls[i].chunk = i
          /\ cb_calls[i].total_chunks = Len(chunks)
          /\ cb_calls[i].valid_so_far =
                SumOf(SubSeq(all_results, 1, i), "valid_count")
          /\ cb_calls[i].invalid_so_far =
                SumOf(SubSeq(all_results, 1, i), "invalid_count")
          /\ i > 1 => /\ cb_calls[i - 1].valid_so_far <= cb_calls[i].valid_so_far
                      /\ cb_calls[i - 1].invalid_so_far <= cb_calls[i].invalid_so_far
    /\ (d_pc = "done" /\ callback # "none") =>
          /\ Len(cb_calls) = Len(chunks)
          /\ cb_calls # <<>> =>
                /\ cb_calls[Len(cb_calls)].valid_so_far = d_result.valid_count
                /\ cb_calls[Len(cb_calls)].invalid_so_far = d_result.invalid_count

C31_Witness ==
    /\ d_pc = "done" /\ callback = "returns"
    /\ Len(cb_calls) >= 2
    /\ cb_calls[1].valid_so_far < cb_calls[2].valid_so_far
    /\ cb_calls[1].invalid_so_far < cb_calls[2].invalid_so_far
    /\ cb_calls[Len(cb_calls)].invalid_so_far = d_result.invalid_count

\* How often unit c (a chunk number) has finished
TimesCompleted(c) == Cardinality({k \in 1..Len(completed) : completed[k] = c})

\* C32: validate_csv_parallel returns a result only after every submitted
\* unit has completed, and under every schedule each unit is run once (a
\* unit that has started is never started again, one that has finished
\* never changes) and contributes once to the aggregate.
C32_BarrierAndExactlyOnce ==
    /\ [](\A i \in 1..Len(futures) : TimesCompleted(i - 1) <= 1)
    /\ [](d_pc = "done" =>
            /\ Len(futures) = Len(chunks)
            /\ \A i \in 1..Len(futures) :
                  /\ futures[i].state = "done"
                  /\ TimesCompleted(i - 1) = 1
                  /\ futures[i].result.total_rows = Len(chunks[i])
            /\ Len(all_results) = Len(futures)
            /\ \A i \in 1..Len(futures) : all_results[i] = futures[i].result
            /\ d_result.total_rows = Len(d_rows))
    /\ [][\A i \in 1..Len(futures) :
            /\ futures[i].state # "queued" => futures'[i].state # "queued"
            /\ futures[i].state \in {"done", "failed"} => futures'[i] = futures[i]]_vars

C32_Witness ==
    /\ d_pc = "done"
    /\ Len(futures) >= 3
    /\ workers >= 2
    /\ completed[1] # 0
    /\ d_result.invalid_count >= 1

\* The chunks one after another, as one sequence
RECURSIVE ConcatChunks(_)
ConcatChunks(cs) == IF cs = <<>> THEN <<>> ELSE Head(cs) \o ConcatChunks(Tail(cs))

\* C33: the chunks read from an input are a partition of it: concatenated
\* in order they are the input records in input order, every chunk but the
\* last has chunk_size records, the last has between 1 and chunk_size, no
\* chunk is empty, and an input without records gives no chunk and an
\* aggregate with total_rows = 0.
C33_ChunksPartitionInput ==
    /\ d_pc \notin {"idle", "start"} =>
          /\ ConcatChunks(chunks) = FileRows(d_rows)
          /\ \A i \in 1..Len(chunks) :
                /\ i < Len(chunks) => Len(chunks[i]) = chunk_size
                /\ Len(chunks[i]) \in 1..chunk_size
          /\ d_rows = <<>> => chunks = <<>>
    /\ (d_pc = "done" /\ d_rows = <<>>) => d_result.total_rows = 0

C33_Witness ==
    /\ d_pc = "done"
    /\ Len(chunks) >= 2
    /\ chunk_size >= 2
    /\ Len(chunks[Len(chunks)]) < chunk_size

\* The same for an input without records
C33_WitnessEmpty == d_pc = "done" /\ d_rows = <<>> /\ chunks = <<>>

\* C30: during a parallel dispatch no worker writes to state shared with
\* other workers: the Schema, its cached compiled-rule list included, and
\* the chunk lists are only read by workers, a unit's ValidationResult is
\* written only by the worker of that unit, and the list of collected
\* results is appended to only by the dispatching thread.
C30_WorkersWriteNothingShared ==
    \A w \in writes :
        /\ w.by # 0 => w.owner = w.by
        /\ w.target = "result" => w.by = w.owner
        /\ w.target \in {"all_results", "chunks"} => w.by = 0

-----------------------------------------------------------------------------
(* Properties of streaming                                                 *)

RECURSIVE TotalRows(_)
TotalRows(ws) == IF ws = <<>> THEN 0 ELSE ws[1].total_rows + TotalRows(Tail(ws))

\* C5: every error of a yielded window carries the zero-based absolute
\* position of its record as row_index, and a window that contains an invalid
\* row is yielded normally.
C5_WindowErrorsCarryAbsoluteIndex ==
    /\ s_exc # "AttributeError"
    /\ \A w \in 1..Len(yielded) :
          \A k \in 1..Len(yielded[w].errors) :
              yielded[w].errors[k].row_index = yielded[w].errors[k].origin

\* C6: validate_csv_stream with its default arguments over N records yields
\* windows of buffer_size records except a possibly smaller last one, no
\* empty window, and total_rows summing to N.
C6_WindowsCoverAllRecords ==
    (s_pc = "end" /\ framing = "csv" /\ skip_header) =>
        /\ \A w \in 1..Len(yielded) :
              /\ yielded[w].total_rows >= 1
              /\ w < Len(yielded) => yielded[w].total_rows = buffer_size
              /\ yielded[w].total_rows <= buffer_size
        /\ TotalRows(yielded) = Len(lines)

BufferBounded == Len(buffer) <= buffer_size

\* C7: the buffer never holds more than buffer_size records, and it is empty
\* again right after each window is produced.
C7_BufferBoundedAndEmptied ==
    /\ []BufferBounded
    /\ [][Len(yielded') > Len(yielded) => buffer' = <<>>]_vars

\* C7 as amended: the buffer never holds more than buffer_size records; it
\* is empty right after each window produced inside the read loop, and the
\* final partial window is yielded with the buffer still holding its records,
\* fewer than buffer_size.
C7_BufferBoundedEmptiedInLoop ==
    /\ []BufferBounded
    /\ [][Len(yielded') > Len(yielded) =>
            IF s_pc = "flush"
            THEN buffer' = <<>>
            ELSE buffer' = buffer /\ Len(buffer') < buffer_size]_vars

\* C7 witness: a stream ended after full windows and a final partial window
C7_Witness ==
    /\ s_pc = "end"
    /\ Len(yielded) >= 2
    /\ yielded[1].total_rows = buffer_size
    /\ buffer # <<>>
    /\ Len(buffer) = yielded[Len(yielded)].total_rows

\* The first line of the input that json.loads rejects, 0 if there is none
FirstBad ==
    IF \E b \in 1..Len(lines) : lines[b].kind = "bad"
    THEN CHOOSE b \in 1..Len(lines) :
            /\ lines[b].kind = "bad"
            /\ \A j \in 1..(b - 1) : lines[j].kind # "bad"
    ELSE 0

\* The records of the yielded windows and of the buffer are the first
\* records of the input, in input order
InInputOrder ==
    /\ TotalRows(yielded) <= RecordPos(lines, s_pos + 1)
    /\ \A i \in 1..Len(buffer) :
          buffer[i].pos = RecordPos(lines, s_pos + 1) - Len(buffer) + i - 1

\* The stream stopped at its first malformed line
StoppedAtFirstBad ==
    /\ s_pos <= FirstBad
    /\ s_pos = FirstBad => (s_pc = "raised" /\ s_exc = "ValueError")
    /\ TotalRows(yielded) <= RecordPos(lines, FirstBad)

\* C22: validate_json_stream never passes over a malformed line: reading it
\* raises ValueError to the consumer, no window is yielded afterwards, and
\* the windows yielded before hold only records that precede the line, in
\* input order.
C22_MalformedLineAborts ==
    /\ []((framing = "jsonl" /\ FirstBad # 0) =>
             (StoppedAtFirstBad /\ InInputOrder))
    /\ [][s_exc = "ValueError" => yielded' = yielded]_vars

\* C22 witness: the stream raised at a malformed line after it had yielded a
\* window and buffered a further record
C22_Witness ==
    /\ framing = "jsonl" /\ s_pc = "raised" /\ s_exc = "ValueError"
    /\ s_pos = FirstBad
    /\ Len(yielded) >= 1
    /\ buffer # <<>>

\* The number of lines of the input that are not blank
NonBlankLines == Cardinality({j \in 1..Len(lines) : lines[j].kind # "blank"})

\* C40: in validate_json_stream blank lines are skipped without being
\* counted: for an input with no malformed line, row positions count the
\* non-blank lines only, the records reach the windows in input order, and
\* when the stream is over the total_rows of the yielded windows add up to
\* the number of non-blank lines.
C40_BlankLinesNotCounted ==
    (framing = "jsonl" /\ FirstBad = 0) =>
        /\ row_count = RecordPos(lines, s_pos + 1)
        /\ InInputOrder
        /\ s_pc \in {"end", "raised"} => TotalRows(yielded) = NonBlankLines

-----------------------------------------------------------------------------
(* Properties of the content cache.  S1 is the session of SpecCache.       *)

S1 == sess[1]

\* save_result has returned in S1 and the clock has not moved since the
\* call stamped its entry
JustSaved == S1.pc = "ready" /\ S1.op = "save_result" /\ now = S1.at

\* What load_result would return to S1 now for the hash h
LoadNow(h) == LoadResult(S1.manifest, payload_files, h, now, ttl)

TiedEntry ==
    \E i \in 1..Len(S1.manifest) :
        S1.manifest[i].hash # S1.key /\ S1.manifest[i].created_at = S1.at

Expired(m, h, t) == InManifest(m, h) /\ t - EntryOf(m, h).created_at >= ttl

\* The entry of h is listed and younger than ttl
Fresh(m, h, t) == InManifest(m, h) /\ t - EntryOf(m, h).created_at < ttl

IsHit(ret) == (ret.kind = "bool" /\ ret.hit) \/ ret.kind = "result"

\* In every state a lookup of S1 hits only on a fresh entry
LookupsHitOnlyFresh ==
    S1.pc = "ready" =>
        \A h \in Hashes :
            /\ IsCacheValid(S1.manifest, h, now, ttl) => Fresh(S1.manifest, h, now)
            /\ IsHit(LoadNow(h)) => Fresh(S1.manifest, h, now)
            /\ Expired(S1.manifest, h, now) =>
                  ~IsCacheValid(S1.manifest, h, now, ttl) /\ LoadNow(h) = RetNone

\* A step that is a has_result or load_result call of S1
LookupStep ==
    /\ S1.pc = "ready" /\ S1'.pc = "ready"
    /\ S1' # S1
    /\ S1'.op \in {"has_result", "load_result"}

\* C16: has_result and load_result report a hit for a hash only while
\* now - created_at < ttl holds for its manifest entry; an entry whose age
\* has reached ttl stays expired, listed or not, until it is stored again,
\* and every lookup of it reports it absent.
C16_HitOnlyWithinTtl ==
    /\ []LookupsHitOnlyFresh
    /\ [][LookupStep /\ IsHit(S1'.ret) => Fresh(S1.manifest, S1'.key, now)]_vars
    /\ [][\A h \in Hashes :
            (Expired(S1.manifest, h, now) /\ InManifest(S1'.manifest, h)
               /\ EntryOf(S1'.manifest, h) = EntryOf(S1.manifest, h))
            => Expired(S1'.manifest, h, now')]_vars

\* C16 witness: load_result returned None for an entry that is still listed,
\* with its payload file, and whose age has reached ttl
C16_Witness ==
    /\ S1.pc = "ready" /\ S1.op = "load_result" /\ S1.ret = RetNone
    /\ ttl > 0
    /\ Expired(S1.manifest, S1.key, now)
    /\ payload_files[S1.key].kind = "json"

\* C17: after every completed save_result the payload files of the entries
\* listed in the manifest take at most max_cache_size in total.
C17_SizeWithinBudget ==
    (S1.pc = "ready" /\ S1.op = "save_result") =>
        CacheSize(S1.manifest, payload_files) <= max_cache_size

\* C17 witness: a store had to evict two entries to get back within a
\* budget that holds the new payload
C17_Witness ==
    /\ S1.pc = "ready" /\ S1.op = "save_result"
    /\ Len(S1.evicted) >= 2
    /\ Len(S1.manifest) >= 1
    /\ CacheSize(S1.manifest, payload_files) = max_cache_size

\* C18: every entry a store evicted for size has a creation time no later
\* than that of every entry that remains, and each was evicted while the
\* total was still over the budget.
C18_OldestFirst ==
    (S1.pc = "ready" /\ S1.op = "save_result") =>
        \A k \in 1..Len(S1.evicted) :
            /\ S1.evicted[k].total_before > max_cache_size
            /\ \A i \in 1..Len(S1.manifest) :
                  S1.evicted[k].created_at <= S1.manifest[i].created_at
            /\ \A j \in 1..(k - 1) :
                  S1.evicted[j].created_at <= S1.evicted[k].created_at

\* C18 witness: a store evicted one entry and kept two, both newer than the
\* evicted one
C18_Witness ==
    /\ S1.pc = "ready" /\ S1.op = "save_result"
    /\ Len(S1.evicted) = 1
    /\ Len(S1.manifest) = 2
    /\ \A i \in 1..2 : S1.evicted[1].created_at < S1.manifest[i].created_at

\* C19: a malformed or unreadable manifest or payload file is a cache miss:
\* no constructor, has_result, load_result or validate_csv call raises, and
\* validate_csv returns the freshly computed result.
C19_CorruptFilesAreMisses ==
    \A s \in Sessions :
        /\ sess[s].ret.kind # "exc"
        /\ (sess[s].pc = "ready" /\ sess[s].op = "validate_csv") =>
              /\ sess[s].ret.kind = "result"
              /\ SameCounts(sess[s].ret.result, FreshResult(sess[s].key))

\* No call is running in any session
Quiescent == \A s \in Sessions : sess[s].pc \in {"none", "ready", "failed"}

\* C20: with two sessions on one directory, every load of the manifest reads
\* a well-formed document, and once the last write is done the file holds
\* the in-memory manifest of the session that wrote last.
C20_ManifestNeverCorrupt ==
    /\ \A s \in Sessions : sess[s].pc # "failed"
    /\ (Quiescent /\ last_writer # 0) =>
          /\ manifest_file.kind = "json"
          /\ manifest_file.content = sess[last_writer].manifest

\* validate_csv has returned in S1, and the call just before it was a
\* validate_csv on the same bytes that returned a result; the whole second
\* call ran before the entry the first call wrote or read reached ttl
SecondCallDone ==
    /\ S1.pc = "ready" /\ S1.op = "validate_csv"
    /\ S1.prev.ret.kind = "result"
    /\ now - S1.prev.at < ttl

\* C21: after validate_csv has completed once, a second call on the same
\* bytes within the ttl returns without running the wrapped validator, with
\* the counts of the first call's result and an empty error list.
C21_SecondCallServedFromCache ==
    SecondCallDone =>
        /\ ~S1.validated
        /\ S1.ret.kind = "result"
        /\ SameCounts(S1.ret.result, S1.prev.ret.result)
        /\ S1.ret.result.errors = <<>>

\* C21 witness: the first call ran the validator and reported an error, the
\* second returned the same counts from the cache
C21_Witness ==
    /\ SecondCallDone /\ ~S1.validated
    /\ S1.prev.ret.result.errors # <<>>
    /\ S1.ret.kind = "result"
    /\ S1.prev.at = S1.at

\* Session 1 has completed a call that stores or removes entries
AfterUpdate ==
    /\ sess[1].pc = "ready"
    /\ sess[1].op \in {"save_result", "invalidate", "clear_all"}

\* C34: in a single cache session, after every completed save_result,
\* invalidate and clear_all the manifest and the payload files agree: every
\* listed hash has a payload file, every payload file belongs to a listed
\* hash, and the manifest on disk is the manifest in memory.
C34_ManifestAndPayloadsAgree ==
    AfterUpdate =>
        /\ \A h \in Hashes :
              InManifest(sess[1].manifest, h) <=> payload_files[h].kind # "absent"
        /\ ~LoadManifest(manifest_file).raised
        /\ LoadManifest(manifest_file).manifest = sess[1].manifest

C34_Witness ==
    /\ AfterUpdate
    /\ sess[1].op = "save_result"
    /\ sess[1].evicted # <<>>
    /\ sess[1].manifest # <<>>
    /\ manifest_file.kind = "json"

\* Session 1 makes a has_result or load_result call in this step
ReadCallStep ==
    /\ sess[1].pc = "ready" /\ sess'[1].pc = "ready"
    /\ sess' # sess
    /\ sess'[1].op \in {"has_result", "load_result"}

\* Session 1 runs the _cleanup_cache of a store in this step
CleanupStep == sess[1].pc = "cleanup" /\ sess'[1].pc = "manifest_save"

\* C35: expired entries are purged by stores only.  has_result and
\* load_result change neither the manifest (in memory or on disk) nor the
\* payload files; the _cleanup_cache of a store leaves no listed entry
\* whose age is >= ttl and no payload file of an entry it took out, and the
\* store returns with that manifest.
C35_ExpiredPurgedByStoresOnly ==
    /\ [][ReadCallStep =>
            /\ sess'[1].manifest = sess[1].manifest
            /\ manifest_file' = manifest_file
            /\ payload_files' = payload_files]_vars
    /\ [][CleanupStep =>
            /\ \A i \in 1..Len(sess'[1].manifest) :
                  now - sess'[1].manifest[i].created_at < ttl
            /\ \A i \in 1..Len(sess[1].manifest) :
                  ~InManifest(sess'[1].manifest, sess[1].manifest[i].hash)
                     => payload_files'[sess[1].manifest[i].hash].kind = "absent"]_vars
    /\ [][(sess[1].pc \in {"manifest_save", "manifest_open"}
             /\ sess[1].after = "return" /\ sess[1].op = "save_result")
          => /\ sess'[1].manifest = sess[1].manifest
             /\ payload_files' = payload_files
             /\ sess'[1].pc = "ready" =>
                   LoadManifest(manifest_file').manifest = sess'[1].manifest]_vars

\* C35 witness: the cleanup of a store has just taken out an entry that had
\* expired (the manifest file still lists it), its payload file is gone,
\* and another listed entry is kept
C35_Witness ==
    /\ sess[1].pc = "manifest_save" /\ sess[1].after = "return"
    /\ sess[1].op = "save_result"
    /\ ttl > 0
    /\ sess[1].manifest # <<>>
    /\ manifest_file.kind = "json"
    /\ \E h \in Hashes :
          /\ InManifest(manifest_file.content, h)
          /\ now - EntryOf(manifest_file.content, h).created_at >= ttl
          /\ ~InManifest(sess[1].manifest, h)
          /\ payload_files[h].kind = "absent"

\* What the function wrapped by rules[1] does on the row data
WrappedOutcome == WrappedCall(rules[1], data).out

\* C36 as stated: a ValidationRule called on a row returns False exactly
\* when the wrapped function raises or returns the boolean False, returns
\* True otherwise, and the call itself never raises.
C36_RuleCallNeverRaises ==
    row_pc = "rule_returned" =>
        /\ rule_ret.kind = "bool"
        /\ rule_ret.value = FALSE <=> WrappedOutcome \in {"false", "raise", "interrupt"}

\* C36, amended: when what leaves the wrapped function is not an exception
\* outside Exception, the call returns a bool, False exactly when the
\* function raised or returned False and True otherwise (None and other
\* non-bool results included); an exception outside Exception, such as
\* KeyboardInterrupt, leaves the call.
C36_RuleCallCatchesException ==
    row_pc = "rule_returned" =>
        IF WrappedOutcome = "interrupt"
        THEN rule_ret.kind = "exc" /\ rule_ret.exc = "KeyboardInterrupt"
        ELSE /\ rule_ret.kind = "bool"
             /\ rule_ret.value = FALSE <=> WrappedOutcome \in {"false", "raise"}

\* C36 witness: the validator of rule("age", ...) raised TypeError on a str
\* and the call returned False
C36_Witness ==
    /\ row_pc = "rule_returned"
    /\ rules[1].func = "conditions"
    /\ WrappedCall(rules[1], data).exc = "TypeError"
    /\ rule_ret = [kind |-> "bool", value |-> FALSE, exc |-> ""]

\* C37: CachedValidator.validate_csv(path, use_cache=True) always returns a
\* ValidationResult and never None, in every reachable cache state, also
\* when the entry expires between the has_result test and the load_result
\* read and when the payload file of a listed hash has been removed.
C37_ValidateCsvNeverNone ==
    \A s \in Sessions :
        (sess[s].pc = "ready" /\ sess[s].op = "validate_csv")
            => sess[s].ret.kind = "result"

\* has_result(q) as session 1 would answer it now
HasResultNow(q) == IsCacheValid(sess[1].manifest, GetFileHash(q), now, ttl)

\* The paths with the bytes of the file the current call of session 1 was
\* given
SameContentPaths ==
    {q \in Paths : \E p \in Paths : /\ GetFileHash(p) = sess[1].key
                                      /\ FileBytes(q) = FileBytes(p)}

C39_StoreKeepsItsEntry ==
    (JustSaved /\ S1.size <= max_cache_size /\ now - S1.at < ttl) =>
        /\ InManifest(S1.manifest, S1.key)
        /\ payload_files[S1.key].kind = "json"

=============================================================================
